---- MODULE Spec2Model ----
(***************************************************************************)
(* Data-plane replication core of the zvol replica (lib/libzrepl/          *)
(* data_conn.c): the worker and its completion queue, the rebuild scanner, *)
(* the rebuild downstream driver and the checkpoint timer, for one volume  *)
(* (one zvol_info_t and its zvol_state_t).                                 *)
(*                                                                         *)
(* Every thread is a process with a program counter; a critical section    *)
(* held under zinfo_mutex / rebuild_mtx / timer_mtx is one action, and     *)
(* every access to shared state outside a lock is an action of its own.    *)
(***************************************************************************)
EXTENDS Integers, Sequences, FiniteSets, TLC

\* ------------------------------------------------------------------ bounds

\* Requests one client connection sends, and READ chunks one driver receives.
MaxReq == 2
\* REBUILD_STEP requests one scanner connection serves.
MaxSteps == 1
\* Downstream drivers of one rebuild (rebuild_info.rebuild_cnt).
NumDrivers == 2
\* WRITE requests one client sends while the checkpoint timer is watched.
MaxWrites == 1
\* The size of the volume a driver rebuilds, in the unit of the regions.
VolumeSize == 3
\* The last tick of the clock the checkpoint timer reads.
MaxTime == 2
\* Calls of uzfs_update_ionum_interval one thread outside this file makes.
MaxCalls == 2

\* --------------------------------------------------------------- constants

\* sizeof (struct zvol_io_rw_hdr), in units of 8 bytes (io_num, len).
SizeofWriteHdr == 2

\* zvol_rebuild_step_size (10 GiB), in the unit of the regions (5 GiB).
zvol_rebuild_step_size == 2

REPLICA_VERSION == "REPLICA_VERSION"

ZVOL_INFO_STATE_ONLINE == "ONLINE"
ZVOL_INFO_STATE_OFFLINE == "OFFLINE"

ZVOL_OP_STATUS_OK == "OK"
ZVOL_OP_STATUS_FAILED == "FAILED"

\* ----------------------------------------------------------------- threads

\* A thread is named by the descriptor of the connection it serves.
Receivers == {1, 2}
Scanners == {5}
Drivers == 11..(10 + NumDrivers)
\* Threads outside this file that call uzfs_update_ionum_interval.
Mutators == {21}
Threads == Receivers \cup Scanners \cup Drivers \cup Mutators
\* The checkpoint timer thread, which serves no connection.
TimerThread == 0

\* Names a HANDSHAKE may carry; only the first is in the volume registry.
VolName == "vol"
Names == {VolName, "nosuch"}

\* The regions of the healthy replica's volume with the io_num stored for each,
\* in the order the metadata walk visits them.
Regions == << [offset |-> 0, len |-> 1, io_num |-> 1],
              [offset |-> 1, len |-> 1, io_num |-> 2] >>

VARIABLES
    zinfo,    \* zvol_info_t: the volume's replication state
    zv,       \* zvol_state_t: status, rebuild state and counters, block store
    th,       \* per thread: program counter and locals
    acker,    \* the ack-sender thread of the volume
    heap,     \* the (conn, seq) of every zvol_io_cmd_t allocated and not freed
    timer     \* the checkpoint timer thread and its clock

vars == <<zinfo, zv, th, acker, heap, timer>>

\* ------------------------------------------------------------ zvol_io_cmd_t

NoCmd == [conn |-> 0, seq |-> 0, opcode |-> "NONE", rebuild |-> FALSE,
          status |-> ZVOL_OP_STATUS_OK, len |-> 0, io_seq |-> 0, offset |-> 0,
          buf |-> << >>]

CmdId(c) == <<c.conn, c.seq>>

\* zio_cmd_alloc: the header is copied, the command remembers its connection.
\* seq is the order of allocation on the connection (not a field of the code).
zio_cmd_alloc(hdr, fd, seq) ==
    [conn |-> fd, seq |-> seq, opcode |-> hdr.opcode, rebuild |-> hdr.rebuild,
     status |-> hdr.status, len |-> hdr.len, io_seq |-> hdr.io_seq,
     offset |-> hdr.offset, buf |-> hdr.buf]

\* What the heap holds once a command that is not allocated was freed: a
\* second free of a command, or a free of no command.
BadFree == <<-1, -1>>

\* A free that releases nothing.
zio_cmd_leak(h, c) == h

\* zio_cmd_free: the command leaves the heap `h`.
zio_cmd_free(h, c) ==
    IF CmdId(c) \in h THEN h \ {CmdId(c)} ELSE h \cup {BadFree}

Hdr(opcode, rebuild, len, io_seq, offset, buf) ==
    [opcode |-> opcode, rebuild |-> rebuild, status |-> ZVOL_OP_STATUS_OK,
     len |-> len, io_seq |-> io_seq, offset |-> offset, buf |-> buf]

\* Payloads of a WRITE: hdr.len and the (sub-header, data) chunks the buffer
\* holds. The last two are cut short: inside a sub-header, inside the data.
Chunk(io_num, len) == [io_num |-> io_num, len |-> len]
WritePayloads ==
    { [len |-> 3, buf |-> << Chunk(1, 1) >>],
      [len |-> 6, buf |-> << Chunk(2, 1), Chunk(1, 1) >>],
      [len |-> 4, buf |-> << Chunk(1, 1), Chunk(2, 1) >>],
      [len |-> 2, buf |-> << Chunk(2, 1) >>] }

\* ------------------------------------------------------------------- state

ThreadInit(p) ==
    [pc |-> p, ret |-> "none", zio_cmd |-> NoCmd, rc |-> 0, op_rc |-> 0,
     nalloc |-> 0,
     bound |-> FALSE, walk |-> << >>, nsteps |-> 0,
     remain |-> 0, datap |-> 1, running_ionum |-> 0,
     consumed |-> "none", bad_version |-> FALSE, enqueued |-> << >>,
     offset |-> 0, checkpointed_ionum |-> 0,
     step |-> [ckpt |-> 0, offset |-> 0, len |-> 0],
     held |-> << >>, timeout |-> 0, calls |-> 0,
     sent |-> << >>, acked |-> 0,
     req |-> [io |-> "none", opcode |-> "NONE", name |-> "none"]]

StartPc(t, active) ==
    IF t \notin active THEN "absent"
    ELSE IF t \in Receivers THEN "receive"
    ELSE IF t \in Scanners THEN "read_socket"
    ELSE IF t \in Mutators THEN "idle"
    ELSE "connect"

\* The timer thread before it runs; held are the mutexes it holds, in the
\* order it took them, signalled says that a cv_signal reached its wait and
\* deadline is the time its cv_timedwait ends at.
TimerInit(p) ==
    [now |-> 0, pc |-> p, held |-> << >>, signalled |-> FALSE, deadline |-> 0]

ZVOL_STATUS_DEGRADED == "DEGRADED"
ZVOL_STATUS_HEALTHY == "HEALTHY"

ZVOL_REBUILDING_INIT == "REBUILDING_INIT"
ZVOL_REBUILDING_IN_PROGRESS == "REBUILDING_IN_PROGRESS"
ZVOL_REBUILDING_DONE == "REBUILDING_DONE"
ZVOL_REBUILDING_ERRORED == "REBUILDING_ERRORED"
ZVOL_REBUILDING_FAILED == "REBUILDING_FAILED"

\* The state after the volume was opened with `ionum` as its last committed
\* io number and the threads `active` were started: the parent of each
\* rebuild driver among them holds one refcount for it. `acking` says whether
\* the volume's ack-sender exists.
InitSized(active, status, ionum, acking, size) ==
    LET drivers == active \cap Drivers IN
    /\ zinfo = [state |-> ZVOL_INFO_STATE_ONLINE,
                refcnt |-> Cardinality(drivers),
                complete_queue |-> << >>,
                zio_cmd_in_ack |-> NoCmd,
                is_io_ack_sender_created |-> acking,
                io_ack_waiting |-> FALSE,
                running_ionum |-> ionum,
                checkpointed_ionum |-> ionum,
                checkpointed_time |-> 0,
                update_ionum_interval |-> 1]
    /\ zv = [status |-> status,
             rebuild_status |-> IF drivers = {} THEN ZVOL_REBUILDING_INIT
                                ELSE ZVOL_REBUILDING_IN_PROGRESS,
             rebuild_cnt |-> Cardinality(drivers),
             rebuild_done_cnt |-> 0,
             rebuild_failed_cnt |-> 0,
             size |-> size,
             initial_ionum |-> ionum,
             last_committed_io_no |-> ionum,
             failed_stores |-> 0,
             written |-> {}]
    /\ th = [t \in Threads |-> ThreadInit(StartPc(t, active))]
    /\ acker = IF acking THEN "run" ELSE "exited"
    /\ heap = {}
    /\ timer = TimerInit(IF TimerThread \in active THEN "enter" ELSE "absent")

InitWith(active, status, ionum, acking) ==
    InitSized(active, status, ionum, acking, VolumeSize)

\* --------------------------------------------------------------- the worker

WorkerPcs == {"w_check", "sw_loop", "sw_cas", "sw_reread", "w_ack"}

IsRebuildWrite(c) == c.rebuild /\ c.opcode = "WRITE"

\* Lines 312-318: the status the worker leaves in the header for rc.
WithStatus(c, rc) ==
    IF rc # 0 THEN [c EXCEPT !.status = ZVOL_OP_STATUS_FAILED, !.len = 0]
    ELSE [c EXCEPT !.status = ZVOL_OP_STATUS_OK]

\* A drop that is left out.
uzfs_zinfo_keep_refcnt(refcnt) == refcnt

\* uzfs_zinfo_drop_refcnt: the refcount of the volume after one drop.
uzfs_zinfo_drop_refcnt(refcnt) == refcnt - 1

\* A short-circuit that frees nothing.
OfflineFreesNothing(c) == FALSE

\* Whether the OFFLINE short-circuit frees the command.
OfflineFrees(c) == ~IsRebuildWrite(c)

\* The worker returns to its caller, which finds `c` in its zio_cmd.
WorkerReturn(t, c) ==
    th' = [th EXCEPT ![t].zio_cmd = c, ![t].pc = th[t].ret, ![t].ret = "none",
                     ![t].op_rc = 0]

\* uzfs_zvol_worker from its entry: the OFFLINE short-circuit, which ends the
\* call, or the switch on the opcode and the status that follows it.
\* uzfs_read_data may fail and its result is rc; uzfs_flush_data may fail and
\* its result is not looked at, rc staying 0. op_rc is what the block store
\* reported for the command (not a variable of the code).
uzfs_zvol_worker_check(t) ==
    LET c == th[t].zio_cmd IN
    /\ th[t].pc = "w_check"
    /\ IF zinfo.state = ZVOL_INFO_STATE_OFFLINE
       THEN LET failed == [c EXCEPT !.status = ZVOL_OP_STATUS_FAILED, !.len = 0] IN
            /\ IF OfflineFrees(c)
               THEN heap' = zio_cmd_free(heap, c) /\ WorkerReturn(t, NoCmd)
               ELSE heap' = heap /\ WorkerReturn(t, failed)
            /\ zinfo' = [zinfo EXCEPT !.refcnt = uzfs_zinfo_drop_refcnt(@)]
       ELSE /\ CASE c.opcode = "READ" ->
                      \E rc \in {0, -1} :
                          th' = [th EXCEPT ![t].zio_cmd = WithStatus(c, rc),
                                           ![t].op_rc = rc,
                                           ![t].pc = "w_ack"]
                 [] c.opcode = "WRITE" ->
                      th' = [th EXCEPT ![t].datap = 1, ![t].remain = c.len,
                                       ![t].pc = "sw_loop"]
                 [] c.opcode = "SYNC" ->
                      \E flushed \in {0, -1} :
                          th' = [th EXCEPT ![t].zio_cmd = WithStatus(c, 0),
                                           ![t].op_rc = flushed,
                                           ![t].pc = "w_ack"]
                 [] OTHER ->
                      th' = [th EXCEPT ![t].zio_cmd = WithStatus(c, 0),
                                       ![t].pc = "w_ack"]
            /\ UNCHANGED <<zinfo, heap>>
    /\ UNCHANGED <<zv, acker, timer>>

\* uzfs_submit_writes returns rc to the worker, which sets the status.
SubmitWritesReturn(t, rc) ==
    th' = [th EXCEPT ![t].zio_cmd = WithStatus(th[t].zio_cmd, rc),
                     ![t].op_rc = rc,
                     ![t].remain = 0, ![t].datap = 1, ![t].running_ionum = 0,
                     ![t].pc = "w_ack"]

\* A loop that takes every payload for whole.
PayloadShortNever(remain, need) == FALSE

\* The two tests of uzfs_submit_writes on what is left of the payload: fewer
\* bytes than the sub-header, fewer bytes than the sub-header's len.
PayloadShort(remain, need) == remain < need

\* A loop that goes on whatever uzfs_write_data returned.
WriteBreaksNever(rc) == FALSE

\* `if (rc != 0) break;` after uzfs_write_data.
WriteBreaks(rc) == rc # 0

\* uzfs_submit_writes, from the head of the loop to the read of running_ionum.
\* uzfs_write_data returns 0 and the chunk is in the block store, or fails.
uzfs_submit_writes_chunk(t) ==
    LET c == th[t].zio_cmd
        remain == th[t].remain
    IN
    /\ th[t].pc = "sw_loop"
    /\ IF remain <= 0 THEN SubmitWritesReturn(t, 0) /\ zv' = zv
       ELSE IF PayloadShort(remain, SizeofWriteHdr)
            THEN SubmitWritesReturn(t, -1) /\ zv' = zv
       ELSE LET write_hdr == c.buf[th[t].datap]
                left == remain - SizeofWriteHdr
            IN IF PayloadShort(left, write_hdr.len)
               THEN SubmitWritesReturn(t, -1) /\ zv' = zv
               ELSE \E rc \in {0, -1} :
                      /\ IF WriteBreaks(rc) THEN SubmitWritesReturn(t, rc)
                         ELSE th' = [th EXCEPT ![t].remain = left,
                                     ![t].running_ionum = zinfo.running_ionum,
                                     ![t].pc = "sw_cas"]
                      /\ zv' = IF rc = 0
                               THEN [zv EXCEPT !.written =
                                        @ \cup {write_hdr.io_num}]
                               ELSE zv
    /\ UNCHANGED <<zinfo, acker, heap, timer>>

\* A plain store in the place of the compare-and-swap.
atomic_store_64(cur, cmp, new) == new

\* atomic_cas_64(target, cmp, new): new is stored iff the target holds cmp.
atomic_cas_64(cur, cmp, new) == IF cur = cmp THEN new ELSE cur

\* uzfs_submit_writes: the test of the while loop and one compare-and-swap,
\* or, the loop being over, the step to the next chunk.
uzfs_submit_writes_cas(t) ==
    LET write_hdr == th[t].zio_cmd.buf[th[t].datap] IN
    /\ th[t].pc = "sw_cas"
    /\ IF th[t].running_ionum < write_hdr.io_num
       THEN /\ zinfo' = [zinfo EXCEPT !.running_ionum =
                            atomic_cas_64(@, th[t].running_ionum, write_hdr.io_num)]
            /\ th' = [th EXCEPT ![t].pc = "sw_reread"]
       ELSE /\ th' = [th EXCEPT ![t].datap = @ + 1,
                                ![t].remain = @ - write_hdr.len,
                                ![t].pc = "sw_loop"]
            /\ zinfo' = zinfo
    /\ UNCHANGED <<zv, acker, heap, timer>>

\* uzfs_submit_writes: running_ionum is read again after the compare-and-swap.
uzfs_submit_writes_reread(t) ==
    /\ th[t].pc = "sw_reread"
    /\ th' = [th EXCEPT ![t].running_ionum = zinfo.running_ionum, ![t].pc = "sw_cas"]
    /\ UNCHANGED <<zinfo, zv, acker, heap, timer>>

\* An insertion at the head of the queue.
STAILQ_INSERT_HEAD(q, c) == << c >> \o q

\* STAILQ_INSERT_TAIL(&zinfo->complete_queue, zio_cmd, cmd_link)
STAILQ_INSERT_TAIL(q, c) == Append(q, c)

\* A worker that acks every command.
AckSuppressedNever(c) == FALSE

\* Whether the worker puts no command of this kind on the completion queue.
AckSuppressed(c) == IsRebuildWrite(c)

\* What a rebuild connection's thread has had put on the completion queue
\* since it last read a header (not a variable of the code).
Logged(t, log, c) ==
    IF t \in Scanners
    THEN Append(log, [opcode |-> c.opcode, rebuild |-> c.rebuild,
                      io_seq |-> c.io_seq, offset |-> c.offset])
    ELSE log

\* uzfs_zvol_worker, after the command ran: no ack for a rebuild write, which
\* stays with the caller; the command is freed when no ack-sender exists, and
\* is queued otherwise (the ack-sender, if waiting, is signalled). The
\* refcount is dropped and the worker returns.
uzfs_zvol_worker_ack(t) ==
    LET c == th[t].zio_cmd
        dropped == [zinfo EXCEPT !.refcnt = uzfs_zinfo_drop_refcnt(@)]
    IN
    /\ th[t].pc = "w_ack"
    /\ IF AckSuppressed(c)
       THEN /\ WorkerReturn(t, c)
            /\ zinfo' = dropped
            /\ heap' = heap
       ELSE IF ~zinfo.is_io_ack_sender_created
       THEN /\ heap' = zio_cmd_free(heap, c)
            /\ WorkerReturn(t, NoCmd)
            /\ zinfo' = dropped
       ELSE /\ zinfo' = [dropped EXCEPT
                            !.complete_queue = STAILQ_INSERT_TAIL(@, c)]
            /\ th' = [th EXCEPT ![t].zio_cmd = NoCmd, ![t].pc = th[t].ret,
                                ![t].ret = "none", ![t].op_rc = 0,
                                ![t].enqueued = Logged(t, @, c)]
            /\ heap' = heap
    /\ UNCHANGED <<zv, acker, timer>>

uzfs_zvol_worker(t) ==
    \/ uzfs_zvol_worker_check(t)
    \/ uzfs_submit_writes_chunk(t)
    \/ uzfs_submit_writes_cas(t)
    \/ uzfs_submit_writes_reread(t)
    \/ uzfs_zvol_worker_ack(t)

\* A caller's dispatch: the command is allocated, one refcount is taken for
\* the worker (uzfs_zinfo_take_refcnt) and the worker runs on this thread,
\* whose other locals are `locals`.
Dispatch(t, locals, hdr, ret) ==
    LET c == zio_cmd_alloc(hdr, t, locals.nalloc + 1) IN
    /\ heap' = heap \cup {CmdId(c)}
    /\ zinfo' = [zinfo EXCEPT !.refcnt = @ + 1]
    /\ th' = [th EXCEPT ![t] = [locals EXCEPT !.zio_cmd = c, !.nalloc = @ + 1,
                                              !.pc = "w_check", !.ret = ret]]

\* ------------------------------------------------- client receiver (io_receiver)

\* One request is read from the connection and handed to the worker.
io_receiver(t, hdrs, max) ==
    /\ th[t].pc = "receive"
    /\ th[t].nalloc < max
    /\ \E hdr \in hdrs : Dispatch(t, th[t], hdr, "receive")
    /\ UNCHANGED <<zv, acker, timer>>

\* --------------------------------------------------------------- ack-sender

\* The ack-sender, woken if it was waiting, takes the head of the queue and
\* marks it in flight, both under zinfo_mutex, before it writes the response.
io_ack_sender_dequeue ==
    /\ acker = "run"
    /\ zinfo.complete_queue # << >>
    /\ zinfo' = [zinfo EXCEPT !.zio_cmd_in_ack = Head(zinfo.complete_queue),
                              !.complete_queue = Tail(@),
                              !.io_ack_waiting = FALSE]
    /\ acker' = "write"
    /\ UNCHANGED <<zv, th, heap, timer>>

\* The response was written: the in-flight marker is cleared, the command freed.
io_ack_sender_written ==
    /\ acker = "write"
    /\ heap' = zio_cmd_free(heap, zinfo.zio_cmd_in_ack)
    /\ zinfo' = [zinfo EXCEPT !.zio_cmd_in_ack = NoCmd]
    /\ acker' = "run"
    /\ UNCHANGED <<zv, th, timer>>

\* The queue is empty: the ack-sender waits on io_ack_cond.
io_ack_sender_wait ==
    /\ acker = "run"
    /\ zinfo.complete_queue = << >>
    /\ ~zinfo.io_ack_waiting
    /\ zinfo' = [zinfo EXCEPT !.io_ack_waiting = TRUE]
    /\ UNCHANGED <<zv, th, acker, heap, timer>>

\* The client socket closed: the ack-sender exits and workers free their
\* commands from now on.
io_ack_sender_exit ==
    /\ acker = "run"
    /\ zinfo' = [zinfo EXCEPT !.is_io_ack_sender_created = FALSE,
                              !.io_ack_waiting = FALSE]
    /\ acker' = "exited"
    /\ UNCHANGED <<zv, th, heap, timer>>

io_ack_sender ==
    \/ io_ack_sender_dequeue
    \/ io_ack_sender_written
    \/ io_ack_sender_wait
    \/ io_ack_sender_exit

\* ------------------------------------------------------------- volume state

\* Another thread takes the volume OFFLINE.
SetOffline ==
    /\ zinfo.state = ZVOL_INFO_STATE_ONLINE
    /\ zinfo' = [zinfo EXCEPT !.state = ZVOL_INFO_STATE_OFFLINE]
    /\ UNCHANGED <<zv, th, acker, heap, timer>>

\* ----------------------------------------------------------- rebuild scanner

\* What the peer of a rebuild connection may send, and how the reads go:
\* io says where a socket read fails, if one does.
Msg(io, version, opcode, name, ckpt, offset, len) ==
    [io |-> io, version |-> version, opcode |-> opcode, name |-> name,
     checkpointed_io_seq |-> ckpt, offset |-> offset, len |-> len]
ScannerMsgs ==
    {Msg(io, REPLICA_VERSION, "HANDSHAKE", VolName, 0, 0, 0) :
        io \in {"fail_version", "fail_rest", "fail_name"}}
    \cup {Msg("ok", "OTHER_VERSION", "REBUILD_STEP", VolName, 0, 0, 2)}
    \cup {Msg("ok", REPLICA_VERSION, "HANDSHAKE", n, 0, 0, 0) : n \in Names}
    \cup {Msg("ok", REPLICA_VERSION, "REBUILD_STEP", VolName, ckpt, 0, 2) :
            ckpt \in 0..2}
    \cup {Msg("ok", REPLICA_VERSION, "REBUILD_STEP", VolName, 0, 1, 1)}
    \cup {Msg("ok", REPLICA_VERSION, op, VolName, 0, 0, 0) :
            op \in {"REBUILD_COMPLETE", "READ"}}

\* The return code of uzfs_zvol_read_header for an invalid version.
INVALID_VERSION_RC == 1

\* A read of the header that does not look at the version.
uzfs_zvol_read_unchecked_header(msg) ==
    IF msg.io = "fail_version" THEN [rc |-> -1, consumed |-> "none"]
    ELSE IF msg.io = "fail_rest" THEN [rc |-> -1, consumed |-> "version"]
    ELSE [rc |-> 0, consumed |-> "header"]

\* uzfs_zvol_read_header: the version is read alone and checked, then the rest.
\* rc is the return code, consumed says what was read from the socket.
uzfs_zvol_read_header(msg) ==
    IF msg.io = "fail_version" THEN [rc |-> -1, consumed |-> "none"]
    ELSE IF msg.version # REPLICA_VERSION
    THEN [rc |-> INVALID_VERSION_RC, consumed |-> "version"]
    ELSE IF msg.io = "fail_rest" THEN [rc |-> -1, consumed |-> "version"]
    ELSE [rc |-> 0, consumed |-> "header"]

\* uzfs_zinfo_lookup: the volume of that name, or NULL.
uzfs_zinfo_lookup(name) == name = VolName

\* uzfs_get_io_diff: the regions of [offset, offset + len) whose stored io_num
\* is above the checkpoint, in walk order.
uzfs_get_io_diff(ckpt, offset, len) ==
    SelectSeq(Regions, LAMBDA r : /\ r.offset >= offset
                                  /\ r.offset < offset + len
                                  /\ r.io_num > ckpt)

\* Whether the version field of msg reaches the reader and is not
\* REPLICA_VERSION.
BadVersion(msg) == msg.io # "fail_version" /\ msg.version # REPLICA_VERSION

\* What the scanner was sent last (th[t].req, not a variable of the code).
NoReq == [io |-> "none", opcode |-> "NONE", name |-> "none"]
Req(msg) == [io |-> msg.io, opcode |-> msg.opcode, name |-> msg.name]

\* The scanner goes to the label pc with rc; bad_version remembers that the
\* header it read had another version (not a variable of the code).
ScannerGoto(t, msg, rd, rc, pc) ==
    th' = [th EXCEPT ![t].rc = rc, ![t].pc = pc, ![t].consumed = rd.consumed,
                     ![t].bad_version = BadVersion(msg),
                     ![t].enqueued = << >>, ![t].req = Req(msg)]

\* A scanner that serves any opcode before the HANDSHAKE.
HandshakeMissingNever(opcode, bound) == FALSE

\* Whether a header arrives while the HANDSHAKE is yet to happen.
HandshakeMissing(opcode, bound) == opcode # "HANDSHAKE" /\ ~bound

\* uzfs_zvol_rebuild_scanner from the label read_socket: one header is read
\* and the switch on its opcode is taken.
uzfs_zvol_rebuild_scanner_read(t, msgs) ==
    /\ th[t].pc = "read_socket"
    /\ \E msg \in msgs :
        LET rd == uzfs_zvol_read_header(msg) IN
        /\ msg.opcode = "REBUILD_STEP" /\ rd.rc = 0 /\ th[t].bound
              => th[t].nsteps < MaxSteps
        /\ IF rd.rc # 0 \/ (th[t].bound /\ zinfo.state = ZVOL_INFO_STATE_OFFLINE)
           THEN ScannerGoto(t, msg, rd, rd.rc, "exit") /\ zinfo' = zinfo
           ELSE IF HandshakeMissing(msg.opcode, th[t].bound)
           THEN ScannerGoto(t, msg, rd, -1, "exit") /\ zinfo' = zinfo
           ELSE CASE msg.opcode = "HANDSHAKE" ->
                       IF msg.io = "fail_name" \/ th[t].bound
                          \/ ~uzfs_zinfo_lookup(msg.name)
                       THEN ScannerGoto(t, msg, [rd EXCEPT !.consumed =
                                IF msg.io = "fail_name" THEN "header" ELSE "name"],
                                -1, "exit") /\ zinfo' = zinfo
                       ELSE /\ th' = [th EXCEPT ![t].bound = TRUE, ![t].rc = 0,
                                                ![t].consumed = "name",
                                                ![t].bad_version = BadVersion(msg),
                                                ![t].enqueued = << >>,
                                                ![t].req = Req(msg)]
                            /\ zinfo' = [zinfo EXCEPT !.refcnt = @ + 1]
                  [] msg.opcode = "REBUILD_STEP" ->
                       /\ th' = [th EXCEPT ![t].rc = 0, ![t].pc = "diff",
                                    ![t].consumed = "header",
                                    ![t].nsteps = @ + 1,
                                    ![t].bad_version = BadVersion(msg),
                                    ![t].enqueued = << >>,
                                    ![t].req = Req(msg),
                                    ![t].step = [ckpt |-> msg.checkpointed_io_seq,
                                                 offset |-> msg.offset,
                                                 len |-> msg.len],
                                    ![t].walk = uzfs_get_io_diff(
                                        msg.checkpointed_io_seq, msg.offset, msg.len)]
                       /\ zinfo' = zinfo
                  [] OTHER ->
                       ScannerGoto(t, msg, rd, 0, "exit") /\ zinfo' = zinfo
    /\ UNCHANGED <<zv, acker, heap, timer>>

\* A callback that leaves hdr.io_seq unset.
uzfs_zvol_rebuild_scanner_callback_no_seq(r) ==
    Hdr("READ", TRUE, r.len, 0, r.offset, << >>)

\* The header uzfs_zvol_rebuild_scanner_callback makes for a region.
uzfs_zvol_rebuild_scanner_callback(r) ==
    Hdr("READ", TRUE, r.len, r.io_num, r.offset, << >>)

\* uzfs_get_io_diff calling uzfs_zvol_rebuild_scanner_callback for the next
\* region, or, the walk being over, the REBUILD_STEP_DONE the scanner submits.
uzfs_zvol_rebuild_scanner_diff(t) ==
    /\ th[t].pc = "diff"
    /\ IF th[t].walk = << >>
       THEN Dispatch(t, th[t],
                     Hdr("REBUILD_STEP_DONE", FALSE, 0, 0, 0, << >>), "read_socket")
       ELSE LET r == Head(th[t].walk) IN
            IF zinfo.state = ZVOL_INFO_STATE_OFFLINE
            THEN /\ th' = [th EXCEPT ![t].rc = -1, ![t].pc = "exit"]
                 /\ UNCHANGED <<zinfo, heap>>
            ELSE Dispatch(t, [th[t] EXCEPT !.walk = Tail(@)],
                          uzfs_zvol_rebuild_scanner_callback(r), "diff")
    /\ UNCHANGED <<zv, acker, timer>>

\* uzfs_get_io_diff fails in the block store.
uzfs_zvol_rebuild_scanner_diff_fail(t) ==
    /\ th[t].pc = "diff"
    /\ th' = [th EXCEPT ![t].rc = -1, ![t].pc = "exit"]
    /\ UNCHANGED <<zinfo, zv, acker, heap, timer>>

\* A walk that stops at the first command it unlinks.
remove_first_pending(q, fd) ==
    IF \E i \in DOMAIN q : q[i].conn = fd
    THEN LET k == CHOOSE i \in DOMAIN q :
                    q[i].conn = fd /\ \A j \in 1..(i - 1) : q[j].conn # fd
         IN SubSeq(q, 1, k - 1) \o SubSeq(q, k + 1, Len(q))
    ELSE q

\* The commands of `q` that remove_pending_cmds_to_ack(fd) leaves in it: the
\* walk over the queue unlinks and frees each command with conn = fd.
RECURSIVE remove_pending(_, _)
remove_pending(q, fd) ==
    IF q = << >> THEN << >>
    ELSE IF Head(q).conn = fd THEN remove_pending(Tail(q), fd)
    ELSE << Head(q) >> \o remove_pending(Tail(q), fd)

\* The test of the loop in which remove_pending_cmds_to_ack sleeps.
AckInFlightFor(fd) ==
    zinfo.zio_cmd_in_ack # NoCmd /\ zinfo.zio_cmd_in_ack.conn = fd

\* The label exit with no volume bound: the socket is closed.
uzfs_zvol_rebuild_scanner_close(t) ==
    /\ th[t].pc = "exit"
    /\ ~th[t].bound
    /\ th' = [th EXCEPT ![t].pc = "closed", ![t].rc = 0, ![t].consumed = "none",
                        ![t].enqueued = << >>, ![t].req = NoReq]
    /\ UNCHANGED <<zinfo, zv, acker, heap, timer>>

\* remove_pending_cmds_to_ack, first critical section: the queue is purged
\* and the in-flight command is looked at.
remove_pending_cmds_to_ack(t) ==
    LET q == zinfo.complete_queue
        kept == remove_pending(q, t)
    IN
    /\ th[t].pc = "exit"
    /\ th[t].bound
    /\ zinfo' = [zinfo EXCEPT !.complete_queue = kept]
    /\ heap' = (heap \ {CmdId(q[i]) : i \in DOMAIN q})
                   \cup {CmdId(kept[i]) : i \in DOMAIN kept}
    /\ th' = [th EXCEPT ![t].pc = IF AckInFlightFor(t) THEN "purge_sleep"
                                  ELSE "exit_drop",
                        ![t].rc = 0, ![t].consumed = "none", ![t].walk = << >>,
                        ![t].req = NoReq]
    /\ UNCHANGED <<zv, acker, timer>>

\* remove_pending_cmds_to_ack after sleep(1): the in-flight command is looked
\* at again under the mutex.
remove_pending_cmds_to_ack_retry(t) ==
    /\ th[t].pc = "purge_sleep"
    /\ ~AckInFlightFor(t)
    /\ th' = [th EXCEPT ![t].pc = "exit_drop"]
    /\ UNCHANGED <<zinfo, zv, acker, heap, timer>>

\* The label exit after the purge: the refcount of the lookup is dropped and
\* the socket is closed.
uzfs_zvol_rebuild_scanner_drop(t) ==
    /\ th[t].pc = "exit_drop"
    /\ zinfo' = [zinfo EXCEPT !.refcnt = uzfs_zinfo_drop_refcnt(@)]
    /\ th' = [th EXCEPT ![t].pc = "closed", ![t].enqueued = << >>,
                        ![t].step = [ckpt |-> 0, offset |-> 0, len |-> 0]]
    /\ UNCHANGED <<zv, acker, heap, timer>>

uzfs_zvol_rebuild_scanner(t, msgs) ==
    \/ uzfs_zvol_rebuild_scanner_read(t, msgs)
    \/ uzfs_zvol_rebuild_scanner_diff(t)
    \/ uzfs_zvol_rebuild_scanner_diff_fail(t)
    \/ uzfs_zvol_rebuild_scanner_close(t)
    \/ remove_pending_cmds_to_ack(t)
    \/ remove_pending_cmds_to_ack_retry(t)
    \/ uzfs_zvol_rebuild_scanner_drop(t)

\* ------------------------------------------------------------------ mutexes

\* The mutexes a thread of this file holds across more than one step. A
\* section under zinfo_mutex alone is one step and holds no other mutex.
HeldBy(a) == IF a = TimerThread THEN timer.held ELSE th[a].held
Agents == Threads \cup {TimerThread}
MutexFree(m) ==
    \A a \in Agents : \A i \in DOMAIN HeldBy(a) : HeldBy(a)[i] # m

\* ------------------------------------------------ uzfs_update_ionum_interval

\* A caller enters uzfs_update_ionum_interval(zinfo, th[t].timeout) and takes
\* timer_mtx.
uzfs_update_ionum_interval_enter(t) ==
    /\ th[t].pc = "update_ionum_interval"
    /\ MutexFree("timer_mtx")
    /\ th' = [th EXCEPT ![t].held = Append(@, "timer_mtx"),
                        ![t].pc = "update_ionum_interval_locked"]
    /\ UNCHANGED <<zinfo, zv, acker, heap, timer>>

\* Whether uzfs_update_ionum_interval goes on to cv_signal.
IntervalDiffers(interval, timeout) == interval # timeout

\* cv_signal(&timer_cv): the timer is woken if it waits.
cv_signal(tm) == [tm EXCEPT !.signalled = (tm.pc = "waiting")]

\* uzfs_update_ionum_interval under timer_mtx: nothing is done if the
\* interval is already `timeout`; otherwise a timeout other than 0 becomes the
\* interval and the timer is signalled. timer_mtx is released on return.
uzfs_update_ionum_interval(t) ==
    /\ th[t].pc = "update_ionum_interval_locked"
    /\ IF IntervalDiffers(zinfo.update_ionum_interval, th[t].timeout)
       THEN /\ zinfo' = [zinfo EXCEPT !.update_ionum_interval =
                            IF th[t].timeout # 0 THEN th[t].timeout ELSE @]
            /\ timer' = cv_signal(timer)
       ELSE UNCHANGED <<zinfo, timer>>
    /\ th' = [th EXCEPT ![t].held = SubSeq(@, 1, Len(@) - 1),
                        ![t].pc = th[t].ret, ![t].ret = "none",
                        ![t].timeout = 0]
    /\ UNCHANGED <<zv, acker, heap>>

\* A thread outside this file calls uzfs_update_ionum_interval with one of
\* `timeouts`, at most `max` times.
mutator(t, timeouts, max) ==
    \/ /\ th[t].pc = "idle"
       /\ th[t].calls < max
       /\ \E timeout \in timeouts :
             th' = [th EXCEPT ![t].pc = "update_ionum_interval",
                              ![t].ret = "idle", ![t].timeout = timeout,
                              ![t].calls = @ + 1]
       /\ UNCHANGED <<zinfo, zv, acker, heap, timer>>
    \/ uzfs_update_ionum_interval_enter(t)
    \/ uzfs_update_ionum_interval(t)

\* ------------------------------------------------- rebuild downstream driver

\* What the driver may read from the scanner while it awaits the chunks of a
\* step: io says whether the read of the header or of the payload fails.
DriverMsg(io, opcode, status, len, buf) ==
    [io |-> io, opcode |-> opcode, status |-> status, len |-> len, buf |-> buf]
DriverMsgs(payloads) ==
    {DriverMsg("fail_hdr", "READ", ZVOL_OP_STATUS_OK, 0, << >>),
     DriverMsg("ok", "READ", ZVOL_OP_STATUS_FAILED, 0, << >>),
     DriverMsg("ok", "REBUILD_STEP_DONE", ZVOL_OP_STATUS_OK, 0, << >>)}
    \cup {DriverMsg(io, "READ", ZVOL_OP_STATUS_OK, p.len, p.buf) :
            io \in {"ok", "fail_payload"}, p \in payloads}

\* A test of the rebuild status that never finds it ERRORED.
ZVOL_IS_REBUILDING_NEVER_ERRORED == FALSE

ZVOL_IS_REBUILDING_ERRORED == zv.rebuild_status = ZVOL_REBUILDING_ERRORED

DriverExit(t, rc) == th' = [th EXCEPT ![t].rc = rc, ![t].pc = "exit"]

\* uzfs_zvol_rebuild_dw_replica up to the label next_step: the socket is set
\* up and connected, the checkpointed io number is read and the HANDSHAKE sent.
uzfs_zvol_rebuild_dw_replica_connect(t) ==
    /\ th[t].pc = "connect"
    /\ \/ DriverExit(t, -1)
       \/ th' = [th EXCEPT ![t].checkpointed_ionum = zv.last_committed_io_no,
                           ![t].offset = 0, ![t].pc = "next_step"]
    /\ UNCHANGED <<zinfo, zv, acker, heap, timer>>

\* A step that always asks for zvol_rebuild_step_size.
StepLenFull(offset, size) == zvol_rebuild_step_size

\* hdr.len of the REBUILD_STEP at `offset` of a volume of `size`.
StepLen(offset, size) ==
    IF offset + zvol_rebuild_step_size > size THEN size - offset
    ELSE zvol_rebuild_step_size

\* What the driver wrote to the scanner after the HANDSHAKE (th[t].sent, not
\* a variable of the code).
StepMsg(ckpt, offset, len) ==
    [opcode |-> "REBUILD_STEP", ckpt |-> ckpt, offset |-> offset, len |-> len]
CompleteMsg ==
    [opcode |-> "REBUILD_COMPLETE", ckpt |-> 0, offset |-> 0, len |-> 0]

\* A driver that keeps the result of the write of REBUILD_COMPLETE as its rc.
RebuildCompleteRcKept(write_rc) == write_rc

\* rc after the write of REBUILD_COMPLETE returned write_rc: a failed write
\* counts as success.
RebuildCompleteRc(write_rc) == IF write_rc # 0 THEN 0 ELSE 0

\* The label next_step: the driver gives up if the rebuild errored, sends
\* REBUILD_COMPLETE once the offset is past the volume (a failed write of it
\* counts as success), and sends the next REBUILD_STEP otherwise.
uzfs_zvol_rebuild_dw_replica_next_step(t) ==
    /\ th[t].pc = "next_step"
    /\ IF ZVOL_IS_REBUILDING_ERRORED THEN DriverExit(t, -1)
       ELSE IF th[t].offset >= zv.size
       THEN \E write_rc \in {0, -1} :
               th' = [th EXCEPT ![t].rc = RebuildCompleteRc(write_rc),
                                ![t].pc = "exit",
                                ![t].sent = IF write_rc = 0
                                            THEN Append(@, CompleteMsg) ELSE @]
       ELSE \/ DriverExit(t, -1)
            \/ th' = [th EXCEPT
                        ![t].sent = Append(@, StepMsg(th[t].checkpointed_ionum,
                                        th[t].offset,
                                        StepLen(th[t].offset, zv.size))),
                        ![t].pc = "recv"]
    /\ UNCHANGED <<zinfo, zv, acker, heap, timer>>

\* A driver that stays where it is.
NextOffsetSame(offset) == offset

\* offset += zvol_rebuild_step_size, on REBUILD_STEP_DONE.
NextOffset(offset) == offset + zvol_rebuild_step_size

\* The loop that reads what the scanner sends for a step: a READ of the
\* rebuild becomes a WRITE that the worker runs on this thread. The scanner
\* sends at most `max` chunks to one driver.
uzfs_zvol_rebuild_dw_replica_recv(t, payloads, max) ==
    /\ th[t].pc = "recv"
    /\ IF ZVOL_IS_REBUILDING_ERRORED
       THEN DriverExit(t, -1) /\ UNCHANGED <<zinfo, heap>>
       ELSE \E msg \in DriverMsgs(payloads) :
              /\ msg.opcode = "READ" /\ msg.status = ZVOL_OP_STATUS_OK
                    /\ msg.io # "fail_hdr" => th[t].nalloc < max
              /\ IF msg.io = "fail_hdr" \/ msg.status # ZVOL_OP_STATUS_OK
                 THEN DriverExit(t, -1) /\ UNCHANGED <<zinfo, heap>>
                 ELSE IF msg.opcode = "REBUILD_STEP_DONE"
                 THEN /\ th' = [th EXCEPT ![t].offset = NextOffset(@),
                                          ![t].acked = @ + 1,
                                          ![t].pc = "next_step"]
                      /\ UNCHANGED <<zinfo, heap>>
                 ELSE LET hdr == Hdr("WRITE", TRUE, msg.len, 0, 0, msg.buf)
                          c == zio_cmd_alloc(hdr, t, th[t].nalloc + 1)
                      IN IF msg.io = "fail_payload"
                         THEN /\ heap' = heap \cup {CmdId(c)}
                              /\ th' = [th EXCEPT ![t].zio_cmd = c, ![t].rc = -1,
                                           ![t].nalloc = @ + 1, ![t].pc = "exit"]
                              /\ zinfo' = zinfo
                         ELSE Dispatch(t, th[t], hdr, "written")
    /\ UNCHANGED <<zv, acker, timer>>

\* The worker returned: a FAILED rebuild write ends the driver, the command
\* is freed otherwise.
uzfs_zvol_rebuild_dw_replica_written(t) ==
    /\ th[t].pc = "written"
    /\ IF th[t].zio_cmd.status # ZVOL_OP_STATUS_OK
       THEN DriverExit(t, -1) /\ heap' = heap
       ELSE /\ heap' = zio_cmd_free(heap, th[t].zio_cmd)
            /\ th' = [th EXCEPT ![t].zio_cmd = NoCmd, ![t].pc = "recv"]
    /\ UNCHANGED <<zinfo, zv, acker, timer>>

\* Every driver taken for the last one.
AllDriversDoneAlways(cnt, done_cnt) == TRUE

\* Whether every driver of the rebuild has done its bookkeeping.
AllDriversDone(cnt, done_cnt) == cnt = done_cnt

\* An end of the rebuild that does not look at the failures.
FinalRebuildStatusDone(failed_cnt) == ZVOL_REBUILDING_DONE

\* The state a rebuild ends in, from the count of drivers that failed.
FinalRebuildStatus(failed_cnt) ==
    IF failed_cnt # 0 THEN ZVOL_REBUILDING_FAILED ELSE ZVOL_REBUILDING_DONE

\* rebuild_done_cnt after one more driver did its bookkeeping.
CountDone(done_cnt) == done_cnt + 1

\* The label exit, under rebuild_mtx: the bookkeeping of a driver that ends.
\* The driver that turns the volume HEALTHY goes on, with rebuild_mtx held,
\* to uzfs_update_ionum_interval(zinfo, 0); any other releases rebuild_mtx.
uzfs_zvol_rebuild_dw_replica_exit(t) ==
    LET failed_cnt == IF th[t].rc # 0 THEN zv.rebuild_failed_cnt + 1
                      ELSE zv.rebuild_failed_cnt
        done_cnt == CountDone(zv.rebuild_done_cnt)
        errored == IF th[t].rc # 0 THEN ZVOL_REBUILDING_ERRORED
                   ELSE zv.rebuild_status
        last == AllDriversDone(zv.rebuild_cnt, done_cnt)
    IN
    /\ th[t].pc = "exit"
    /\ MutexFree("rebuild_mtx")
    /\ zv' = [zv EXCEPT
                !.rebuild_failed_cnt = failed_cnt,
                !.rebuild_done_cnt = done_cnt,
                !.rebuild_status = IF last THEN FinalRebuildStatus(failed_cnt)
                                   ELSE errored,
                !.status = IF last /\ failed_cnt = 0 THEN ZVOL_STATUS_HEALTHY
                           ELSE @]
    /\ th' = IF last /\ failed_cnt = 0
             THEN [th EXCEPT ![t].held = << "rebuild_mtx" >>,
                             ![t].pc = "update_ionum_interval",
                             ![t].ret = "exit_unlock", ![t].timeout = 0]
             ELSE [th EXCEPT ![t].pc = "exit_free"]
    /\ UNCHANGED <<zinfo, acker, heap, timer>>

\* mutex_exit(&zinfo->zv->rebuild_mtx) after uzfs_update_ionum_interval.
uzfs_zvol_rebuild_dw_replica_unlock(t) ==
    /\ th[t].pc = "exit_unlock"
    /\ th' = [th EXCEPT ![t].held = << >>, ![t].pc = "exit_free"]
    /\ UNCHANGED <<zinfo, zv, acker, heap, timer>>

\* After the bookkeeping: a command still held is freed, the socket is closed
\* and the refcount the parent took is dropped.
uzfs_zvol_rebuild_dw_replica_close(t) ==
    /\ th[t].pc = "exit_free"
    /\ heap' = IF th[t].zio_cmd # NoCmd THEN zio_cmd_free(heap, th[t].zio_cmd)
               ELSE heap
    /\ zinfo' = [zinfo EXCEPT !.refcnt = uzfs_zinfo_drop_refcnt(@)]
    /\ th' = [th EXCEPT ![t].zio_cmd = NoCmd, ![t].pc = "done", ![t].offset = 0,
                        ![t].checkpointed_ionum = 0, ![t].sent = << >>,
                        ![t].acked = 0]
    /\ UNCHANGED <<zv, acker, timer>>

uzfs_zvol_rebuild_dw_replica(t, payloads, max) ==
    \/ uzfs_zvol_rebuild_dw_replica_connect(t)
    \/ uzfs_zvol_rebuild_dw_replica_next_step(t)
    \/ uzfs_zvol_rebuild_dw_replica_recv(t, payloads, max)
    \/ uzfs_zvol_rebuild_dw_replica_written(t)
    \/ uzfs_zvol_rebuild_dw_replica_exit(t)
    \/ uzfs_update_ionum_interval_enter(t)
    \/ uzfs_update_ionum_interval(t)
    \/ uzfs_zvol_rebuild_dw_replica_unlock(t)
    \/ uzfs_zvol_rebuild_dw_replica_close(t)

\* ---------------------------------------------------------- checkpoint timer

\* A second passes.
Tick ==
    /\ timer.now < MaxTime
    /\ timer' = [timer EXCEPT !.now = @ + 1]
    /\ UNCHANGED <<zinfo, zv, th, acker, heap>>

\* The value uzfs_zvol_timer_thread hands to
\* uzfs_zvol_store_last_committed_io_no.
CheckpointToStore(zi) == zi.checkpointed_ionum

\* A checkpoint one io number ahead.
NextCheckpointAhead(zi) == zi.running_ionum + 1

\* The io number uzfs_zvol_timer_thread takes as the next checkpoint.
NextCheckpoint(zi) == zi.running_ionum

\* Whether the timer finds the volume HEALTHY with its interval passed.
CheckpointDue ==
    /\ zv.status = ZVOL_STATUS_HEALTHY
    /\ zinfo.checkpointed_time + zinfo.update_ionum_interval <= timer.now

\* The checkpoint of a volume that is due: it is stored, which may fail in
\* the block store, and then running_ionum is taken as the next checkpoint
\* whatever the store did. failed_stores counts the stores that failed (not a
\* variable of the code).
uzfs_zvol_timer_checkpoint ==
    /\ \E stored \in BOOLEAN :
          zv' = IF stored
                THEN [zv EXCEPT !.last_committed_io_no = CheckpointToStore(zinfo)]
                ELSE [zv EXCEPT !.failed_stores = @ + 1]
    /\ zinfo' = [zinfo EXCEPT !.checkpointed_ionum = NextCheckpoint(zinfo),
                              !.checkpointed_time = timer.now]

\* One round of uzfs_zvol_timer_thread that checkpoints the volume, as one
\* step: timer_mtx and zvol_list_mutex are taken and released within it.
uzfs_zvol_timer_thread ==
    /\ CheckpointDue
    /\ uzfs_zvol_timer_checkpoint
    /\ UNCHANGED <<th, acker, heap, timer>>

\* The timer thread step by step. It takes timer_mtx once, before its loop.
uzfs_zvol_timer_thread_enter ==
    /\ timer.pc = "enter"
    /\ MutexFree("timer_mtx")
    /\ timer' = [timer EXCEPT !.held = << "timer_mtx" >>, !.pc = "loop"]
    /\ UNCHANGED <<zinfo, zv, th, acker, heap>>

\* The head of the loop: zvol_list_mutex is taken with timer_mtx held.
uzfs_zvol_timer_thread_list ==
    /\ timer.pc = "loop"
    /\ MutexFree("zvol_list_mutex")
    /\ timer' = [timer EXCEPT !.held = Append(@, "zvol_list_mutex"),
                              !.pc = "round"]
    /\ UNCHANGED <<zinfo, zv, th, acker, heap>>

\* The longest the timer sleeps, in seconds.
MaxCheckInterval == 600

\* min_interval after the walk of the volume list at time `now`.
MinInterval(status, next_check, now) ==
    IF status = ZVOL_STATUS_HEALTHY /\ MaxCheckInterval > next_check - now
    THEN next_check - now
    ELSE MaxCheckInterval

\* The walk of the volume list under zvol_list_mutex, which is released at
\* its end; the time to wake at is now + min_interval.
uzfs_zvol_timer_thread_round ==
    /\ timer.pc = "round"
    /\ IF CheckpointDue
       THEN uzfs_zvol_timer_checkpoint
       ELSE UNCHANGED <<zinfo, zv>>
    /\ timer' = [timer EXCEPT
                   !.held = << "timer_mtx" >>,
                   !.deadline = timer.now + MinInterval(zv.status,
                       zinfo'.checkpointed_time + zinfo.update_ionum_interval,
                       timer.now),
                   !.pc = "timedwait"]
    /\ UNCHANGED <<th, acker, heap>>

\* cv_timedwait releases timer_mtx and waits.
uzfs_zvol_timer_thread_wait ==
    /\ timer.pc = "timedwait"
    /\ timer' = [timer EXCEPT !.held = << >>, !.signalled = FALSE,
                              !.pc = "waiting"]
    /\ UNCHANGED <<zinfo, zv, th, acker, heap>>

\* cv_timedwait returns, signalled or timed out, with timer_mtx taken again.
uzfs_zvol_timer_thread_wake ==
    /\ timer.pc = "waiting"
    /\ timer.signalled \/ timer.deadline <= timer.now
    /\ MutexFree("timer_mtx")
    /\ timer' = [timer EXCEPT !.held = << "timer_mtx" >>, !.signalled = FALSE,
                              !.deadline = 0, !.pc = "loop"]
    /\ UNCHANGED <<zinfo, zv, th, acker, heap>>

uzfs_zvol_timer_thread_steps ==
    \/ uzfs_zvol_timer_thread_enter
    \/ uzfs_zvol_timer_thread_list
    \/ uzfs_zvol_timer_thread_round
    \/ uzfs_zvol_timer_thread_wait
    \/ uzfs_zvol_timer_thread_wake

\* ----------------------------------------------------------- specifications

\* The requests of a client that a run of the whole pipeline draws from.
PipeHdrs ==
    {Hdr("READ", FALSE, 1, 0, 0, << >>), Hdr("SYNC", FALSE, 0, 0, 0, << >>),
     Hdr("WRITE", FALSE, 3, 0, 0, << Chunk(1, 1) >>)}
PipePayloads == { [len |-> 3, buf |-> << Chunk(1, 1) >>] }
SyncHdrs == {Hdr("SYNC", FALSE, 0, 0, 0, << >>)}
WriteHdrs == {Hdr("WRITE", FALSE, p.len, 0, 0, p.buf) : p \in WritePayloads}

\* What the peer of a rebuild connection sends while a driver runs beside the
\* scanner: a step whose diff is one region.
CallerMsgs ==
    {Msg("ok", REPLICA_VERSION, "HANDSHAKE", VolName, 0, 0, 0),
     Msg("ok", REPLICA_VERSION, "REBUILD_STEP", VolName, 1, 0, 2),
     Msg("ok", REPLICA_VERSION, "REBUILD_COMPLETE", VolName, 0, 0, 0)}

\* The timeouts uzfs_update_ionum_interval is called with.
Timeouts == {0, 1, 2}

\* Every set of inputs, evaluated in full with the initial state, before the
\* model checker's workers share its records.
InputsEvaluated ==
    /\ \A x \in PipeHdrs \cup SyncHdrs \cup WriteHdrs : x = x
    /\ \A x \in PipePayloads \cup WritePayloads : x = x
    /\ \A x \in ScannerMsgs \cup CallerMsgs \cup DriverMsgs(PipePayloads) : x = x
    /\ \A x \in Timeouts : x = x
    /\ Regions = Regions /\ NoCmd = NoCmd
    /\ NoReq = NoReq /\ CompleteMsg = CompleteMsg

\* The pipeline: a client connection and a rebuild driver feed the worker of
\* a degraded volume while its ack-sender drains the completion queue.
PipeReceivers == {1}
PipeDrivers == {11}
PipeThreads == PipeReceivers \cup PipeDrivers

Init == InputsEvaluated /\ InitWith(PipeThreads, ZVOL_STATUS_DEGRADED, 0, TRUE)

Next ==
    \/ \E t \in PipeReceivers : io_receiver(t, PipeHdrs, MaxReq)
    \/ \E t \in PipeDrivers : uzfs_zvol_rebuild_dw_replica(t, PipePayloads, MaxReq)
    \/ \E t \in PipeThreads : uzfs_zvol_worker(t)
    \/ io_ack_sender
    \/ SetOffline

Spec == Init /\ [][Next]_vars

\* The scanner side: a rebuild connection served from a healthy volume whose
\* client sends SYNCs.
ScanScanners == {5}
ScanThreads == ScanScanners \cup PipeReceivers

InitScanner == InputsEvaluated /\ InitWith(ScanThreads, ZVOL_STATUS_HEALTHY, 0, TRUE)

NextScanner ==
    \/ \E t \in ScanScanners : uzfs_zvol_rebuild_scanner(t, ScannerMsgs)
    \/ \E t \in PipeReceivers :
          io_receiver(t, SyncHdrs, 1)
    \/ \E t \in ScanThreads :
          \/ uzfs_zvol_worker_check(t)
          \/ uzfs_zvol_worker_ack(t)
    \/ io_ack_sender
    \/ SetOffline

SpecScanner == InitScanner /\ [][NextScanner]_vars

\* Every caller of the worker in this file: a rebuild connection served by
\* the scanner and a rebuild driver, on one volume.
CallerThreads == ScanScanners \cup PipeDrivers

InitCallers ==
    InputsEvaluated /\ InitWith(CallerThreads, ZVOL_STATUS_DEGRADED, 0, TRUE)

NextCallers ==
    \/ \E t \in ScanScanners : uzfs_zvol_rebuild_scanner(t, CallerMsgs)
    \/ \E t \in PipeDrivers : uzfs_zvol_rebuild_dw_replica(t, PipePayloads, 1)
    \/ \E t \in CallerThreads : uzfs_zvol_worker(t)
    \/ io_ack_sender
    \/ SetOffline

SpecCallers == InitCallers /\ [][NextCallers]_vars

\* The rebuild: every driver of a degraded volume.
InitRebuild == InputsEvaluated /\ InitWith(Drivers, ZVOL_STATUS_DEGRADED, 0, FALSE)

NextRebuild ==
    \/ \E t \in Drivers : uzfs_zvol_rebuild_dw_replica(t, PipePayloads, 1)
    \/ \E t \in Drivers : uzfs_zvol_worker(t)
    \/ SetOffline

SpecRebuild == InitRebuild /\ [][NextRebuild]_vars

\* The steps of one driver over volumes of every size up to VolumeSize, an
\* empty one among them, with either value as the last committed io number.
InitSteps ==
    /\ InputsEvaluated
    /\ \E size \in 0..VolumeSize, ionum \in {0, 1} :
          InitSized(PipeDrivers, ZVOL_STATUS_DEGRADED, ionum, FALSE, size)

NextSteps ==
    \/ \E t \in PipeDrivers : uzfs_zvol_rebuild_dw_replica(t, PipePayloads, 1)
    \/ \E t \in PipeDrivers : uzfs_zvol_worker(t)
    \/ SetOffline

SpecSteps == InitSteps /\ [][NextSteps]_vars

\* Checkpointing: clients whose ack-sender is gone write to a healthy volume
\* while the timer runs.
Writers == {1, 2}

InitIonum ==
    /\ InputsEvaluated
    /\ \E ionum \in {0, 1} :
        InitWith(Writers, ZVOL_STATUS_HEALTHY, ionum, FALSE)

NextIonum ==
    \/ \E t \in Writers :
          io_receiver(t, WriteHdrs, MaxWrites)
    \/ \E t \in Writers : uzfs_zvol_worker(t)
    \/ uzfs_zvol_timer_thread
    \/ Tick

SpecIonum == InitIonum /\ [][NextIonum]_vars

\* The timer and its callers: the last driver of a rebuild turns the volume
\* HEALTHY while another thread changes the checkpoint interval.
TimerThreads == PipeDrivers \cup Mutators \cup {TimerThread}

InitTimer ==
    InputsEvaluated /\ InitWith(TimerThreads, ZVOL_STATUS_DEGRADED, 0, FALSE)

NextTimer ==
    \/ \E t \in PipeDrivers : uzfs_zvol_rebuild_dw_replica(t, PipePayloads, 1)
    \/ \E t \in PipeDrivers : uzfs_zvol_worker(t)
    \/ \E t \in Mutators : mutator(t, Timeouts, MaxCalls)
    \/ uzfs_zvol_timer_thread_steps
    \/ Tick

SpecTimer == InitTimer /\ [][NextTimer]_vars

\* One driver that runs to its end beside the timer thread, over volumes of
\* every size up to VolumeSize. Every thread that can take a step takes one
\* in the end: the driver and the worker it runs (a read of the socket
\* returns, with what the peer sent or with an error), the timer thread.
LiveThreads == PipeDrivers \cup {TimerThread}

InitLive ==
    /\ InputsEvaluated
    /\ \E size \in 0..VolumeSize :
          InitSized(LiveThreads, ZVOL_STATUS_DEGRADED, 0, FALSE, size)

NextLive ==
    \/ \E t \in PipeDrivers : uzfs_zvol_rebuild_dw_replica(t, PipePayloads, 1)
    \/ \E t \in PipeDrivers : uzfs_zvol_worker(t)
    \/ uzfs_zvol_timer_thread_steps
    \/ Tick
    \/ SetOffline

FairLive ==
    /\ \A t \in PipeDrivers :
          /\ WF_vars(uzfs_zvol_rebuild_dw_replica(t, PipePayloads, 1))
          /\ WF_vars(uzfs_zvol_worker(t))
    /\ WF_vars(uzfs_zvol_timer_thread_steps)

SpecLive == InitLive /\ [][NextLive]_vars /\ FairLive

\* ---------------------------------------------------------------- properties

Max(S) == CHOOSE x \in S : \A y \in S : y <= x

QueueIdx == DOMAIN zinfo.complete_queue

\* The refcounts held for a thread's whole life: the one the parent of a
\* driver took, the one the lookup of a scanner's HANDSHAKE took.
Holders ==
    {t \in Drivers : th[t].pc \notin {"absent", "done"}}
    \cup {t \in Scanners : th[t].bound /\ th[t].pc # "closed"}

\* The threads that are inside uzfs_zvol_worker.
InWorker == {t \in Threads : th[t].pc \in WorkerPcs}

\* C1. Refcount balance: the refcount of the volume is one for each holder
\* plus one for each call of the worker that has not returned, in every
\* state; and every return of the worker, by whichever exit path, takes the
\* refcount down by exactly one while no step inside the worker changes it.
C1_RefcountBalance ==
    /\ [](zinfo.refcnt = Cardinality(Holders) + Cardinality(InWorker))
    /\ [][\A t \in Threads :
            th[t].pc \in WorkerPcs /\ th'[t] # th[t] =>
                zinfo'.refcnt = IF th'[t].pc \in WorkerPcs THEN zinfo.refcnt
                                ELSE zinfo.refcnt - 1]_vars

\* C1: the worker has returned to the scanner from a READ of the diff and
\* from the REBUILD_STEP_DONE, and to the driver from a rebuild write, on an
\* OFFLINE volume; what is left is the refcount of each of the two holders.
C1_Witness ==
    /\ zinfo.state = ZVOL_INFO_STATE_OFFLINE
    /\ \E d \in Drivers : th[d].pc = "written"
    /\ \E s \in Scanners :
          th[s].bound /\ th[s].pc = "read_socket" /\ th[s].nalloc >= 2
    /\ zinfo.refcnt = 2

\* Whether a writer is in the loop of uzfs_submit_writes that advances
\* running_ionum, and the io_num of the chunk it is there for.
InCasLoop(t) == th[t].pc \in {"sw_cas", "sw_reread"}
CasChunk(t) == th[t].zio_cmd.buf[th[t].datap].io_num

\* C2. Monotonic ionum: running_ionum never decreases; it is the initial
\* value or the io_num of a chunk that was written, never more; and it is at
\* least the io_num of every written chunk whose writer is past its
\* compare-and-swap loop, so that it is the maximum of the initial value and
\* the io_nums written once no writer is inside the loop.
C2_MonotonicIonum ==
    /\ [][zinfo'.running_ionum >= zinfo.running_ionum]_vars
    /\ [](/\ zinfo.running_ionum \in {zv.initial_ionum} \cup zv.written
          /\ zinfo.running_ionum >= zv.initial_ionum
          /\ \A a \in zv.written :
                \/ zinfo.running_ionum >= a
                \/ \E t \in Threads : InCasLoop(t) /\ CasChunk(t) = a
          /\ (\A t \in Threads : ~InCasLoop(t)) =>
                zinfo.running_ionum = Max({zv.initial_ionum} \cup zv.written))

\* C2: a writer of io_num 1 lost its compare-and-swap to a writer of io_num 2
\* and reads running_ionum again.
C2_Witness ==
    \E t \in Threads :
        /\ th[t].pc = "sw_reread"
        /\ CasChunk(t) = 1
        /\ zinfo.running_ionum = 2
        /\ zv.written = {1, 2}

\* C3. Ack suppression: no WRITE of a rebuild is in the completion queue or
\* in the hands of the ack-sender, and the driver to which the worker has
\* returned holds its rebuild write, not freed, whatever became of it.
C3_AckSuppression ==
    /\ \A i \in QueueIdx : ~IsRebuildWrite(zinfo.complete_queue[i])
    /\ ~IsRebuildWrite(zinfo.zio_cmd_in_ack)
    /\ \A t \in Threads :
          th[t].pc = "written" =>
              /\ IsRebuildWrite(th[t].zio_cmd)
              /\ CmdId(th[t].zio_cmd) \in heap

\* C3: the worker returned a rebuild write FAILED to the driver on an OFFLINE
\* volume while acks of the client are queued.
C3_Witness ==
    /\ zinfo.state = ZVOL_INFO_STATE_OFFLINE
    /\ zinfo.complete_queue # << >>
    /\ \E t \in Drivers :
          /\ th[t].pc = "written"
          /\ th[t].zio_cmd.status = ZVOL_OP_STATUS_FAILED

\* C4. FIFO per connection: the commands of one connection are in the
\* completion queue in the order the connection's thread dispatched them,
\* and the command the ack-sender took from the head was dispatched before
\* every queued command of its connection.
C4_FifoPerConnection ==
    /\ \A i, j \in QueueIdx :
          i < j /\ zinfo.complete_queue[i].conn = zinfo.complete_queue[j].conn
              => zinfo.complete_queue[i].seq < zinfo.complete_queue[j].seq
    /\ \A i \in QueueIdx :
          zinfo.complete_queue[i].conn = zinfo.zio_cmd_in_ack.conn
              => zinfo.zio_cmd_in_ack.seq < zinfo.complete_queue[i].seq

\* C4: two commands of the rebuild connection are queued around a command of
\* the client connection, behind a command the ack-sender is writing.
C4_Witness ==
    /\ zinfo.zio_cmd_in_ack # NoCmd
    /\ \E i, j, k \in QueueIdx :
          /\ i < j /\ j < k
          /\ zinfo.complete_queue[i].conn = zinfo.complete_queue[k].conn
          /\ zinfo.complete_queue[j].conn # zinfo.complete_queue[i].conn

\* C5. Checkpoint safety: the checkpoint and the value the timer persisted
\* are at most running_ionum in every state, and the value a round of the
\* timer persists is at most running_ionum as that round finds it.
C5_CheckpointSafety ==
    /\ [](/\ zinfo.checkpointed_ionum <= zinfo.running_ionum
          /\ zv.last_committed_io_no <= zinfo.running_ionum)
    /\ [][zv'.last_committed_io_no # zv.last_committed_io_no =>
            zv'.last_committed_io_no <= zinfo.running_ionum]_vars

\* C5: the timer has persisted a checkpoint that writes had advanced while
\* another writer is in its compare-and-swap loop.
C5_Witness ==
    /\ zv.last_committed_io_no > zv.initial_ionum
    /\ \E t \in Threads : InCasLoop(t)

\* Where a scanner is once remove_pending_cmds_to_ack has returned to it, or
\* had nothing to be called for.
PurgeReturned(t) == th[t].pc \in {"exit_drop", "closed"}

\* The commands of other connections than fd in q, in the order of q.
OthersOf(q, fd) == SelectSeq(q, LAMBDA c : c.conn # fd)

\* C6. Purge correctness: once remove_pending_cmds_to_ack(fd) has returned,
\* and so when fd is closed, no command of fd is in the completion queue and
\* the command the ack-sender is writing is not one of fd; and the purge
\* leaves in the queue exactly the commands of the other connections, in the
\* order they had.
C6_PurgeCorrectness ==
    /\ [](\A t \in Scanners :
            PurgeReturned(t) =>
                /\ \A i \in QueueIdx : zinfo.complete_queue[i].conn # t
                /\ zinfo.zio_cmd_in_ack.conn # t)
    /\ [][\A t \in Scanners :
            th[t].pc = "exit" /\ th[t].bound /\ th'[t].pc # "exit" =>
                zinfo'.complete_queue = OthersOf(zinfo.complete_queue, t)]_vars

\* C6: the purge found the ack-sender writing a command of its connection and
\* sleeps, the queue holding a command of the client connection only.
C6_Witness ==
    \E t \in Scanners :
        /\ th[t].pc = "purge_sleep"
        /\ th[t].nalloc >= 2
        /\ zinfo.zio_cmd_in_ack.conn = t
        /\ zinfo.complete_queue # << >>
        /\ \A i \in QueueIdx : zinfo.complete_queue[i].conn # t

\* Where a scanner is from the label exit on.
ScannerExitPcs == {"exit", "purge_sleep", "exit_drop", "closed"}

\* The commands of connection fd in q.
QueuedOf(q, fd) == {CmdId(q[i]) : i \in {j \in DOMAIN q : q[j].conn = fd}}

\* C7. Version handshake: uzfs_zvol_read_header answers a version other than
\* REPLICA_VERSION with the invalid-version code, which is neither 0 nor -1,
\* having read the version and nothing more; the scanner that got it is at
\* its exit with that code, and from then on reads nothing, allocates and
\* submits no command and has no command of its connection added to the
\* completion queue.
C7_VersionHandshake ==
    /\ [](\A t \in Scanners :
            th[t].bad_version =>
                /\ th[t].pc \in ScannerExitPcs
                /\ th[t].zio_cmd = NoCmd
                /\ th[t].pc = "exit" =>
                      /\ th[t].rc = INVALID_VERSION_RC
                      /\ th[t].rc \notin {0, -1}
                      /\ th[t].consumed = "version")
    /\ [][\A t \in Scanners :
            th[t].bad_version =>
                /\ th'[t].bad_version
                /\ th'[t].nalloc = th[t].nalloc
                /\ th'[t].consumed \in {th[t].consumed, "none"}
                /\ QueuedOf(zinfo'.complete_queue, t)
                      \subseteq QueuedOf(zinfo.complete_queue, t)]_vars

\* C7: a header of another version came on a connection that had served a
\* step of a rebuild; the connection is closed.
C7_Witness ==
    \E t \in Scanners :
        /\ th[t].bad_version
        /\ th[t].bound
        /\ th[t].nalloc >= 1
        /\ th[t].pc = "closed"

\* C8. No enqueue while OFFLINE: no step taken in a state where the volume
\* is OFFLINE makes the completion queue longer.
C8_NoEnqueueWhileOffline ==
    [][zinfo.state = ZVOL_INFO_STATE_OFFLINE =>
          Len(zinfo'.complete_queue) <= Len(zinfo.complete_queue)]_vars

\* The worker of thread t runs its test of the volume state in this step and
\* finds the volume OFFLINE.
OfflineShortCircuit(t) ==
    /\ th[t].pc = "w_check"
    /\ th'[t] # th[t]
    /\ zinfo.state = ZVOL_INFO_STATE_OFFLINE

\* The command as the OFFLINE short-circuit marks it.
OfflineFailed(c) == [c EXCEPT !.status = ZVOL_OP_STATUS_FAILED, !.len = 0]

DriversExited ==
    {t \in Drivers :
        th[t].pc \in {"update_ionum_interval", "update_ionum_interval_locked",
                      "exit_unlock", "exit_free", "done"}}
DriversFailed == {t \in DriversExited : th[t].rc # 0}

\* C10. Rebuild completion: rebuild_done_cnt counts the drivers that have
\* exited and rebuild_failed_cnt those of them that failed, so that
\* failed_cnt <= done_cnt <= cnt; until the last driver has exited the
\* rebuild is IN_PROGRESS or ERRORED and the volume is not HEALTHY; from the
\* exit of the last one on the rebuild is FAILED if a driver failed and DONE
\* with the volume HEALTHY otherwise.
C10_RebuildCompletion ==
    LET info == zv IN
    /\ info.rebuild_done_cnt = Cardinality(DriversExited)
    /\ info.rebuild_failed_cnt = Cardinality(DriversFailed)
    /\ info.rebuild_failed_cnt <= info.rebuild_done_cnt
    /\ info.rebuild_done_cnt <= info.rebuild_cnt
    /\ IF info.rebuild_done_cnt < info.rebuild_cnt
       THEN /\ zv.rebuild_status \in
                  {ZVOL_REBUILDING_IN_PROGRESS, ZVOL_REBUILDING_ERRORED}
            /\ zv.rebuild_status = ZVOL_REBUILDING_ERRORED
                  <=> info.rebuild_failed_cnt # 0
            /\ zv.status # ZVOL_STATUS_HEALTHY
       ELSE IF info.rebuild_failed_cnt # 0
       THEN /\ zv.rebuild_status = ZVOL_REBUILDING_FAILED
            /\ zv.status # ZVOL_STATUS_HEALTHY
       ELSE /\ zv.rebuild_status = ZVOL_REBUILDING_DONE
            /\ zv.status = ZVOL_STATUS_HEALTHY
    /\ zv.rebuild_status = ZVOL_REBUILDING_DONE => zv.status = ZVOL_STATUS_HEALTHY

\* C10: every driver has ended without an error after a rebuild write was
\* applied: the rebuild is DONE and the volume HEALTHY.
C10_Witness ==
    /\ \A t \in Drivers : th[t].pc = "done"
    /\ zv.written # {}
    /\ zv.rebuild_status = ZVOL_REBUILDING_DONE
    /\ zv.status = ZVOL_STATUS_HEALTHY

IsPrefix(a, b) == Len(a) <= Len(b) /\ SubSeq(b, 1, Len(a)) = a

\* What a REBUILD_STEP is to put on the completion queue: a READ of the
\* rebuild for each region of its range stored after its checkpoint, in the
\* order of the walk, then the REBUILD_STEP_DONE.
StepReads(step) ==
    SelectSeq(Regions, LAMBDA r : /\ step.offset <= r.offset
                                  /\ r.offset < step.offset + step.len
                                  /\ r.io_num > step.ckpt)
StepCompletions(step) ==
    [i \in 1..Len(StepReads(step)) |->
        [opcode |-> "READ", rebuild |-> TRUE,
         io_seq |-> StepReads(step)[i].io_num,
         offset |-> StepReads(step)[i].offset]]
    \o << [opcode |-> "REBUILD_STEP_DONE", rebuild |-> FALSE,
           io_seq |-> 0, offset |-> 0] >>

HasStepDone(log) == \E i \in DOMAIN log : log[i].opcode = "REBUILD_STEP_DONE"

\* C11. Scanner step: while the volume is ONLINE and the ack-sender lives,
\* what a step has had enqueued is a prefix of its READs and REBUILD_STEP_DONE
\* and, the step over, all of them; a REBUILD_STEP_DONE is enqueued only as
\* the last of that sequence, after every READ, and none is enqueued by a
\* step that ends in the failure of the walk.
C11_ScannerStep ==
    \A t \in Scanners :
        LET log == th[t].enqueued
            expected == StepCompletions(th[t].step)
        IN
        /\ zinfo.state = ZVOL_INFO_STATE_ONLINE /\ zinfo.is_io_ack_sender_created =>
              /\ IsPrefix(log, expected)
              /\ th[t].pc = "read_socket" /\ th[t].nsteps >= 1 => log = expected
        /\ HasStepDone(log) => log = expected /\ th[t].pc = "read_socket"
        /\ th[t].pc \in ScannerExitPcs => ~HasStepDone(log)

\* C11: a step whose diff is two regions is over, its two READs and its
\* REBUILD_STEP_DONE enqueued, the first of them in the hands of the
\* ack-sender.
C11_Witness ==
    \E t \in Scanners :
        /\ th[t].pc = "read_socket"
        /\ Len(th[t].enqueued) = 3
        /\ zinfo.state = ZVOL_INFO_STATE_ONLINE
        /\ zinfo.is_io_ack_sender_created
        /\ zinfo.zio_cmd_in_ack.conn = t

\* C12. Status after execution: the command the worker has executed on a
\* volume it found ONLINE is FAILED with len 0 if the block store reported an
\* error for its read, write or flush, and OK otherwise.
C12_StatusAfterExecution ==
    \A t \in Threads :
        th[t].pc = "w_ack" =>
            IF th[t].op_rc # 0
            THEN /\ th[t].zio_cmd.status = ZVOL_OP_STATUS_FAILED
                 /\ th[t].zio_cmd.len = 0
            ELSE th[t].zio_cmd.status = ZVOL_OP_STATUS_OK

\* The place of a mutex in the order volume registry, rebuild, ack, timer.
LockOrder == << "zvol_list_mutex", "rebuild_mtx", "zinfo_mutex", "timer_mtx" >>
LockRank(m) == CHOOSE i \in DOMAIN LockOrder : LockOrder[i] = m

\* The mutex a thread is blocked on, "none" if it is not blocked.
WaitsFor(a) ==
    IF a = TimerThread
    THEN CASE timer.pc = "enter" -> "timer_mtx"
           [] timer.pc = "waiting"
                /\ (timer.signalled \/ timer.deadline <= timer.now) -> "timer_mtx"
           [] timer.pc = "loop" -> "zvol_list_mutex"
           [] OTHER -> "none"
    ELSE CASE th[a].pc = "update_ionum_interval" -> "timer_mtx"
           [] a \in Drivers /\ th[a].pc = "exit" -> "rebuild_mtx"
           [] OTHER -> "none"

Holds(a, m) == \E i \in DOMAIN HeldBy(a) : HeldBy(a)[i] = m

\* Threads each of which is blocked on a mutex another of them holds.
Deadlocked(S) ==
    /\ S # {}
    /\ \A a \in S : \E b \in S \ {a} : Holds(b, WaitsFor(a))

\* No thread holds a mutex it took with a later one of the order held.
LockOrderKept ==
    \A a \in Agents :
        \A i, j \in DOMAIN HeldBy(a) :
            i < j => LockRank(HeldBy(a)[i]) < LockRank(HeldBy(a)[j])

NoDeadlock == \A S \in SUBSET Agents : ~Deadlocked(S)

\* C13. Lock ordering: the mutexes a thread holds were taken in the order
\* volume registry, rebuild, ack, timer (none is taken with a later one held),
\* and the timer thread, the drivers' bookkeeping and the callers of
\* uzfs_update_ionum_interval are never deadlocked.
C13_LockOrdering == LockOrderKept /\ NoDeadlock

\* The moves of the rebuild status along INIT -> IN_PROGRESS -> {DONE,
\* ERRORED, FAILED}.
ForwardMoves ==
    {<<ZVOL_REBUILDING_INIT, ZVOL_REBUILDING_IN_PROGRESS>>,
     <<ZVOL_REBUILDING_IN_PROGRESS, ZVOL_REBUILDING_DONE>>,
     <<ZVOL_REBUILDING_IN_PROGRESS, ZVOL_REBUILDING_ERRORED>>,
     <<ZVOL_REBUILDING_IN_PROGRESS, ZVOL_REBUILDING_FAILED>>}

RebuildStatusMovesIn(moves) ==
    zv'.rebuild_status # zv.rebuild_status
        => <<zv.rebuild_status, zv'.rebuild_status>> \in moves

\* C14 as stated. The rebuild status only moves along INIT -> IN_PROGRESS ->
\* {DONE, ERRORED, FAILED}: each of the last three is entered from IN_PROGRESS
\* only and is never left.
C14_TerminalNeverLeft == [][RebuildStatusMovesIn(ForwardMoves)]_vars

\* C14. The rebuild status only moves along INIT -> IN_PROGRESS -> {DONE,
\* ERRORED, FAILED} and from ERRORED to FAILED: DONE and ERRORED are entered
\* from IN_PROGRESS only, FAILED from IN_PROGRESS or ERRORED, DONE and FAILED
\* are never left and ERRORED is left for FAILED only.
C14_RebuildTransitions ==
    [][RebuildStatusMovesIn(ForwardMoves \cup
          {<<ZVOL_REBUILDING_ERRORED, ZVOL_REBUILDING_FAILED>>})]_vars

\* C14: the last driver ended without error after another had failed.
C14_Witness ==
    /\ zv.rebuild_status = ZVOL_REBUILDING_FAILED
    /\ zv.rebuild_failed_cnt = 1
    /\ \E t \in Drivers : th[t].pc = "exit_free" /\ th[t].rc = 0

\* A step in which thread t returns from uzfs_update_ionum_interval.
UpdateIntervalReturns(t) ==
    /\ th[t].pc = "update_ionum_interval_locked"
    /\ th'[t].pc # "update_ionum_interval_locked"

\* C15. uzfs_update_ionum_interval(zinfo, timeout) always wakes the timer: a
\* timeout other than 0 becomes the interval, a timeout of 0 leaves it, and in
\* both cases a timer that waits is signalled, whatever the interval was.
C15_AlwaysWakesTimer ==
    [][\A t \in Threads :
          UpdateIntervalReturns(t) =>
              /\ zinfo'.update_ionum_interval =
                    IF th[t].timeout # 0 THEN th[t].timeout
                    ELSE zinfo.update_ionum_interval
              /\ timer.pc = "waiting" => timer'.signalled]_vars

\* C16. Persist before advance: a timer round whose store of the checkpoint
\* fails leaves checkpointed_ionum and checkpointed_time as they were.
C16_FailedPersistKeepsCheckpoint ==
    [][zv'.failed_stores # zv.failed_stores =>
          /\ zinfo'.checkpointed_ionum = zinfo.checkpointed_ionum
          /\ zinfo'.checkpointed_time = zinfo.checkpointed_time]_vars

Min(a, b) == IF a <= b THEN a ELSE b

\* The REBUILD_STEP messages among what a driver has sent.
StepsOf(t) == SelectSeq(th[t].sent, LAMBDA m : m.opcode = "REBUILD_STEP")

\* C17. Downstream step sequence: the k-th REBUILD_STEP of a driver has offset
\* (k - 1) * zvol_rebuild_step_size, len min(zvol_rebuild_step_size, size -
\* offset) and the checkpoint read once before the HANDSHAKE; the ranges are
\* contiguous and inside the volume; a step is sent only when every earlier
\* one was answered by REBUILD_STEP_DONE; REBUILD_COMPLETE is the last message
\* and is sent only when every step was answered and the ranges cover
\* [0, size), which for an empty volume is right after the HANDSHAKE.
C17_StepSequence ==
    \A t \in Drivers :
        LET steps == StepsOf(t)
            n == Len(steps)
            sent == th[t].sent
        IN
        /\ \A k \in 1..n :
              /\ steps[k].offset = (k - 1) * zvol_rebuild_step_size
              /\ steps[k].len = Min(zvol_rebuild_step_size,
                                    zv.size - steps[k].offset)
              /\ steps[k].len > 0
              /\ steps[k].ckpt = zv.initial_ionum
              /\ k < n => steps[k + 1].offset = steps[k].offset + steps[k].len
        /\ n - th[t].acked \in {0, 1}
        /\ \A i \in DOMAIN sent :
              sent[i] = CompleteMsg =>
                  /\ i = Len(sent)
                  /\ th[t].acked = n
                  /\ IF n = 0 THEN zv.size = 0
                     ELSE steps[n].offset + steps[n].len = zv.size

\* C17: a driver has sent REBUILD_COMPLETE after two steps, the second one
\* shorter than zvol_rebuild_step_size.
C17_Witness ==
    \E t \in Drivers :
        /\ Len(th[t].sent) = 3
        /\ th[t].sent[3] = CompleteMsg
        /\ th[t].sent[2].len < zvol_rebuild_step_size
        /\ th[t].sent[2].ckpt = 1

\* The bookkeeping of a driver that ends with an error: failed_cnt grows by
\* one and the rebuild is ERRORED, or FAILED at once if it is the last driver.
ErrorExitPoisons(t) ==
    th[t].pc = "exit" /\ th'[t].pc # "exit" /\ th[t].rc # 0 =>
        /\ zv'.rebuild_failed_cnt = zv.rebuild_failed_cnt + 1
        /\ zv'.rebuild_status =
              IF zv'.rebuild_done_cnt = zv.rebuild_cnt
              THEN ZVOL_REBUILDING_FAILED ELSE ZVOL_REBUILDING_ERRORED

\* A driver that finds the rebuild ERRORED at the head of a step or of its
\* read loop ends with an error and sends nothing more.
PoisonedDriverAborts(t) ==
    /\ zv.rebuild_status = ZVOL_REBUILDING_ERRORED
    /\ th[t].pc \in {"next_step", "recv"}
    /\ th'[t] # th[t]
    => /\ th'[t].pc = "exit"
       /\ th'[t].rc # 0
       /\ th'[t].sent = th[t].sent

\* C18. Rebuild error poisoning: a driver that ends with an error makes the
\* rebuild ERRORED and counts itself in rebuild_failed_cnt; every other driver
\* that then comes to a step boundary ends with an error without sending
\* another REBUILD_STEP or REBUILD_COMPLETE; and once a driver has failed the
\* rebuild is never DONE nor the volume HEALTHY, and is FAILED when all ended.
C18_ErrorPoisoning ==
    /\ [][\A t \in Drivers : ErrorExitPoisons(t) /\ PoisonedDriverAborts(t)]_vars
    /\ [](zv.rebuild_failed_cnt > 0 =>
            /\ zv.status # ZVOL_STATUS_HEALTHY
            /\ zv.rebuild_status =
                  IF zv.rebuild_done_cnt = zv.rebuild_cnt
                  THEN ZVOL_REBUILDING_FAILED ELSE ZVOL_REBUILDING_ERRORED)

\* C18: after one driver failed, another one that had its first step
\* answered has ended with an error having sent no second step.
C18_Witness ==
    \E t, u \in Drivers :
        /\ t # u
        /\ u \in DriversFailed
        /\ zv.rebuild_status = ZVOL_REBUILDING_ERRORED
        /\ th[t].pc = "exit" /\ th[t].rc # 0
        /\ th[t].acked = 1 /\ Len(th[t].sent) = 1

\* The scanner t takes a step from the label read_socket.
ScannerReads(t) == th[t].pc = "read_socket" /\ th'[t] # th[t]

\* What a header does to the connection: a REBUILD_STEP is served only with a
\* volume bound; a volume is bound only by a HANDSHAKE that is read whole and
\* names a volume of the registry, which takes one refcount, and only once; a
\* header before the HANDSHAKE, a HANDSHAKE for an unknown volume, a second
\* HANDSHAKE, a REBUILD_COMPLETE and any other opcode end the connection.
ScannerProtocolStep(t) ==
    LET r == th'[t].req IN
    ScannerReads(t) =>
        /\ th'[t].pc \in {"read_socket", "diff", "exit"}
        /\ th'[t].pc = "diff" => th[t].bound /\ r.opcode = "REBUILD_STEP"
        /\ th'[t].bound /\ ~th[t].bound =>
              /\ r.opcode = "HANDSHAKE" /\ r.io = "ok" /\ r.name = VolName
              /\ zinfo'.refcnt = zinfo.refcnt + 1
              /\ th'[t].pc = "read_socket"
        /\ th'[t].bound = th[t].bound => zinfo'.refcnt = zinfo.refcnt
        /\ r.opcode # "HANDSHAKE" /\ ~th[t].bound =>
              th'[t].pc = "exit" /\ ~th'[t].bound
        /\ r.opcode = "HANDSHAKE" /\ r.name # VolName =>
              th'[t].pc = "exit" /\ th'[t].bound = th[t].bound
        /\ r.opcode = "HANDSHAKE" /\ th[t].bound => th'[t].pc = "exit"
        /\ r.opcode \notin {"HANDSHAKE", "REBUILD_STEP"} => th'[t].pc = "exit"

\* What the label exit does: with a volume bound the queue is purged of the
\* connection's commands and then the refcount is dropped once before the
\* socket is closed; with none the socket is closed and nothing else changes.
ScannerExitStep(t) ==
    /\ th[t].pc = "exit" /\ th'[t].pc # "exit" =>
          IF th[t].bound
          THEN /\ th'[t].pc \in {"purge_sleep", "exit_drop"}
               /\ QueuedOf(zinfo'.complete_queue, t) = {}
               /\ zinfo'.refcnt = zinfo.refcnt
          ELSE /\ th'[t].pc = "closed"
               /\ zinfo' = zinfo
    /\ th[t].pc = "purge_sleep" /\ th'[t].pc # "purge_sleep" =>
          th'[t].pc = "exit_drop" /\ zinfo' = zinfo
    /\ th[t].pc = "exit_drop" /\ th'[t].pc # "exit_drop" =>
          /\ th'[t].pc = "closed"
          /\ th[t].bound
          /\ zinfo'.refcnt = zinfo.refcnt - 1
    /\ th[t].pc = "closed" => th'[t].pc = "closed"

\* C19. Scanner protocol: REBUILD_STEP and REBUILD_COMPLETE are served only
\* after one successful HANDSHAKE naming a volume that exists; every header
\* out of that order ends the connection; and on every exit the completion
\* queue is purged and the refcount dropped once exactly when a volume was
\* bound, before the socket is closed.
C19_ScannerProtocol ==
    [][\A t \in Scanners : ScannerProtocolStep(t) /\ ScannerExitStep(t)]_vars

\* C19: a connection that bound a volume and had a step served has been
\* purged, has dropped its refcount and is closed.
C19_Witness ==
    \E t \in Scanners :
        /\ th[t].pc = "closed" /\ th[t].bound /\ th[t].nsteps = 1
        /\ zinfo.refcnt = 0

\* Whether REBUILD_COMPLETE is among what driver t has sent.
CompleteSent(t) == \E i \in DOMAIN th[t].sent : th[t].sent[i] = CompleteMsg

\* C20. A failed REBUILD_COMPLETE is a success: a driver whose offset is past
\* the volume and whose write of REBUILD_COMPLETE fails goes to its exit with
\* rc = 0, and its bookkeeping increments rebuild_done_cnt, leaves
\* rebuild_failed_cnt as it is and does not make the rebuild ERRORED.
C20_CompleteWriteFailureIsSuccess ==
    [][\A t \in Drivers :
          /\ /\ th[t].pc = "next_step" /\ th'[t] # th[t]
             /\ zv.rebuild_status # ZVOL_REBUILDING_ERRORED
             /\ th[t].offset >= zv.size
             /\ th'[t].sent = th[t].sent
             => th'[t].pc = "exit" /\ th'[t].rc = 0
          /\ /\ th[t].pc = "exit" /\ th'[t].pc # "exit"
             /\ th[t].offset >= zv.size
             /\ th[t].rc = 0 /\ ~CompleteSent(t)
             => /\ zv'.rebuild_done_cnt = zv.rebuild_done_cnt + 1
                /\ zv'.rebuild_failed_cnt = zv.rebuild_failed_cnt
                /\ zv'.rebuild_status = ZVOL_REBUILDING_ERRORED
                      => zv.rebuild_status = ZVOL_REBUILDING_ERRORED]_vars

\* C20: the only failure of a rebuild's drivers was a failed write of
\* REBUILD_COMPLETE, and the rebuild is DONE.
C20_Witness ==
    /\ zv.rebuild_status = ZVOL_REBUILDING_DONE
    /\ zv.rebuild_done_cnt = zv.rebuild_cnt
    /\ \E t \in Drivers :
          /\ th[t].pc = "exit_free" /\ th[t].rc = 0
          /\ th[t].offset >= zv.size /\ ~CompleteSent(t)

\* The commands a thread holds in its zio_cmd, the commands linked in
\* complete_queue, the command in the hands of the ack-sender.
HeldOf(state) ==
    {CmdId(state[t].zio_cmd) : t \in {u \in Threads : state[u].zio_cmd # NoCmd}}
LinkedOf(q) == {CmdId(q[i]) : i \in DOMAIN q}
InAckOf(c) == IF c # NoCmd THEN {CmdId(c)} ELSE {}

SingleOwner ==
    LET held == HeldOf(th)
        linked == LinkedOf(zinfo.complete_queue)
        inack == InAckOf(zinfo.zio_cmd_in_ack)
    IN
    /\ BadFree \notin heap
    /\ heap = held \cup linked \cup inack
    /\ held \cap linked = {}
    /\ held \cap inack = {}
    /\ linked \cap inack = {}
    /\ Cardinality(linked) = Len(zinfo.complete_queue)
    /\ \A t, u \in Threads :
          /\ t # u
          /\ th[t].zio_cmd # NoCmd
          /\ th[u].zio_cmd # NoCmd
          => CmdId(th[t].zio_cmd) # CmdId(th[u].zio_cmd)

\* The three ends of a call of the worker for command c of thread t.
FreedByWorker(t, c) ==
    /\ zinfo.state = ZVOL_INFO_STATE_OFFLINE \/ ~zinfo.is_io_ack_sender_created
    /\ CmdId(c) \notin heap'
    /\ CmdId(c) \notin LinkedOf(zinfo'.complete_queue)
    /\ th'[t].zio_cmd = NoCmd

OwnedByQueue(t, c) ==
    /\ CmdId(c) \in heap'
    /\ CmdId(c) \in LinkedOf(zinfo'.complete_queue)
    /\ th'[t].zio_cmd = NoCmd

OwnedByCaller(t, c) ==
    /\ IsRebuildWrite(c)
    /\ CmdId(c) \in heap'
    /\ CmdId(c) \notin LinkedOf(zinfo'.complete_queue)
    /\ CmdId(th'[t].zio_cmd) = CmdId(c)

WorkerHandsOver ==
    \A t \in Threads :
        th[t].pc \in WorkerPcs /\ th'[t].pc \notin WorkerPcs =>
            LET c == th[t].zio_cmd
                ends == <<FreedByWorker(t, c), OwnedByQueue(t, c),
                          OwnedByCaller(t, c)>>
            IN Cardinality({i \in 1..3 : ends[i]}) = 1

\* C21. Single ownership of a command: in every state the commands that are
\* allocated are exactly those held by one thread, linked once in
\* complete_queue or in the hands of the ack-sender, each by one owner only,
\* and no command was freed that was not allocated (so none is freed twice,
\* none is freed while linked, none is lost); and when the worker returns,
\* the command was freed by it (volume OFFLINE or no ack-sender) and is not
\* queued, or it is queued and no more the caller's, or it is a rebuild WRITE
\* still held by the caller: exactly one of the three.
C21_SingleOwnership == []SingleOwner /\ [][WorkerHandsOver]_vars

\* C21: the driver holds the rebuild write the worker handed back to it, a
\* response of the client is linked in the queue and an earlier command of
\* the client was freed.
C21_Witness ==
    /\ \E t \in Drivers :
          th[t].pc = "written" /\ CmdId(th[t].zio_cmd) \in heap
    /\ zinfo.complete_queue # << >>
    /\ \E s \in Scanners : th[s].nalloc > Cardinality({i \in heap : i[1] = s})

\* The bytes of a payload up to the end of its k-th chunk.
RECURSIVE PayloadBytes(_, _)
PayloadBytes(buf, k) ==
    IF k = 0 THEN 0
    ELSE PayloadBytes(buf, k - 1) + SizeofWriteHdr + buf[k].len

\* A WRITE whose len is less than its chunks take: short or truncated.
Truncated(c) ==
    c.opcode = "WRITE" /\ c.len < PayloadBytes(c.buf, Len(c.buf))

\* Thread t takes a step of uzfs_submit_writes on a truncated payload.
SubmitsTruncated(t) ==
    th[t].pc = "sw_loop" /\ Truncated(th[t].zio_cmd) /\ th'[t] # th[t]

\* The step applies the chunk at datap to the block store.
AppliesChunk(t) ==
    /\ th'[t].pc = "sw_cas"
    /\ th[t].zio_cmd.buf[th[t].datap].io_num \in zv'.written

\* The command of t completes FAILED with len 0.
CompletesFailed(t) ==
    /\ th'[t].zio_cmd.status = ZVOL_OP_STATUS_FAILED
    /\ th'[t].zio_cmd.len = 0

\* C22 as stated. A WRITE whose payload is short or truncated fails as a
\* whole: it completes FAILED with len 0 and no chunk of it is applied to the
\* block store.
C22_TruncatedAppliesNothing ==
    [][\A t \in Threads :
          SubmitsTruncated(t) =>
              /\ th'[t].pc = "w_ack" => CompletesFailed(t)
              /\ ~AppliesChunk(t)]_vars

\* C22, amended. A WRITE whose payload is short or truncated fails as a
\* whole: it completes FAILED with len 0, and neither the chunk that is cut
\* short nor any after it is applied to the block store; only whole chunks
\* before the cut are applied, one by one as the loop meets them and before
\* the cut is found.
C22_TruncatedFailsAtCut ==
    [][\A t \in Threads :
          SubmitsTruncated(t) =>
              LET c == th[t].zio_cmd IN
              /\ th'[t].pc = "w_ack" => CompletesFailed(t)
              /\ th'[t].pc \in {"sw_loop", "sw_cas", "w_ack"}
              /\ AppliesChunk(t) => PayloadBytes(c.buf, th[t].datap) <= c.len
              /\ PayloadBytes(c.buf, th[t].datap) > c.len
                    => th'[t].pc = "w_ack" /\ zv' = zv]_vars

\* C22: the worker is about to complete, FAILED with len 0, the WRITE of two
\* chunks that was cut in the second sub-header: the first chunk is in the
\* block store and running_ionum is its io_num, the second is not.
C22_Witness ==
    \E t \in Writers :
        /\ th[t].pc = "w_ack"
        /\ th[t].zio_cmd.buf = << Chunk(1, 1), Chunk(2, 1) >>
        /\ th[t].zio_cmd.status = ZVOL_OP_STATUS_FAILED
        /\ th[t].zio_cmd.len = 0
        /\ \A u \in Writers \ {t} : th[u].nalloc = 0
        /\ zv.initial_ionum = 0
        /\ zv.written = {1}
        /\ zinfo.running_ionum = 1

\* The step is a compare-and-swap of thread t that raises running_ionum to
\* the io_num of the chunk t has written.
RaisedBy(t) ==
    /\ th[t].pc = "sw_cas"
    /\ th'[t].pc = "sw_reread"
    /\ CasChunk(t) \in zv.written
    /\ zinfo'.running_ionum = CasChunk(t)

\* Thread t leaves the loop of uzfs_submit_writes.
SubmitWritesLeaves(t) == th[t].pc = "sw_loop" /\ th'[t].pc = "w_ack"

\* C24. running_ionum is advanced only by a chunk whose write to the block
\* store returned success: every change of it is the compare-and-swap of a
\* writer on the chunk it has written, a writer comes to the compare-and-swap
\* of a chunk only by the step that put the chunk in the block store, and the
\* step in which the write fails (or the loop ends otherwise) leaves
\* running_ionum alone and ends the loop, so that no later chunk raises it;
\* the chunks before that one are in the block store and running_ionum is
\* already at least their io_nums, whether or not the command completes
\* FAILED.
C24_IonumOnlyBySuccess ==
    [][/\ zinfo'.running_ionum # zinfo.running_ionum
            => \E t \in Threads : RaisedBy(t)
       /\ \A t \in Threads :
            /\ th[t].pc = "sw_loop" /\ th'[t].pc = "sw_cas"
                  => th[t].zio_cmd.buf[th[t].datap].io_num \in zv'.written
            /\ SubmitWritesLeaves(t) =>
                  /\ zinfo'.running_ionum = zinfo.running_ionum
                  /\ th'[t].op_rc # 0
                        => th'[t].zio_cmd.status = ZVOL_OP_STATUS_FAILED
                  /\ \A i \in 1..(th[t].datap - 1) :
                        /\ th[t].zio_cmd.buf[i].io_num \in zv.written
                        /\ zinfo.running_ionum >= th[t].zio_cmd.buf[i].io_num]_vars

\* C24: the write of the second chunk of a whole payload failed and the
\* command is FAILED, the first chunk (io_num 2) is in the block store and
\* has raised running_ionum from 0 to 2, the second (io_num 1) is not there.
C24_Witness ==
    \E t \in Writers :
        /\ th[t].pc = "w_ack"
        /\ th[t].zio_cmd.buf = << Chunk(2, 1), Chunk(1, 1) >>
        /\ th[t].zio_cmd.status = ZVOL_OP_STATUS_FAILED
        /\ \A u \in Writers \ {t} : th[u].nalloc = 0
        /\ zv.initial_ionum = 0
        /\ zv.written = {2}
        /\ zinfo.running_ionum = 2

\* ceil(size / zvol_rebuild_step_size)
StepsNeeded(size) ==
    (size + zvol_rebuild_step_size - 1) \div zvol_rebuild_step_size

\* The driver is at the label exit because something failed: it has an
\* error, or its write of REBUILD_COMPLETE failed.
ExitsAfterFailure(t) ==
    /\ th[t].pc = "exit"
    /\ \/ th[t].rc # 0
       \/ th[t].sent = << >>
       \/ th[t].sent[Len(th[t].sent)] # CompleteMsg

\* The driver gets an error only from outside: from its socket or the header
\* it read (connect, a write, a read, a status that is not OK), from the
\* rebuild being ERRORED, or from the worker handing its write back FAILED,
\* which the worker does only if the block store failed the write, the
\* payload was short or the volume is OFFLINE.
ErrorsComeFromOutside ==
    \A t \in Drivers :
        /\ th[t].rc = 0 /\ th'[t].rc # 0 =>
              \/ th[t].pc \in {"connect", "next_step", "recv"}
              \/ /\ th[t].pc = "written"
                 /\ th[t].zio_cmd.status = ZVOL_OP_STATUS_FAILED
        /\ /\ th[t].pc \in WorkerPcs
           /\ th'[t].pc = "written"
           /\ th'[t].zio_cmd.status = ZVOL_OP_STATUS_FAILED
           => th[t].op_rc # 0 \/ zinfo.state = ZVOL_INFO_STATE_OFFLINE

\* The driver is at the label exit with success: REBUILD_COMPLETE was the
\* last thing it sent, after exactly ceil(size / step) steps, each answered.
ExitsWithSuccess(t) ==
    /\ th[t].pc = "exit"
    /\ th[t].rc = 0
    /\ th[t].sent # << >>
    /\ th[t].sent[Len(th[t].sent)] = CompleteMsg
    /\ Len(th[t].sent) = StepsNeeded(zv.size) + 1
    /\ th[t].acked = StepsNeeded(zv.size)

\* The bookkeeping of the drivers so far: every driver past the label exit
\* is counted once in rebuild_done_cnt, the refcount is that of the drivers
\* that have not finished plus the calls of the worker, and no driver takes
\* more steps than the volume has.
BookkeepingOnce ==
    /\ zv.rebuild_done_cnt = Cardinality(DriversExited)
    /\ zinfo.refcnt = Cardinality({t \in Drivers :
                                      th[t].pc \notin {"absent", "done"}})
                      + Cardinality(InWorker)
    /\ \A t \in Drivers : th[t].acked <= StepsNeeded(zv.size)

\* A driver does its bookkeeping and drops its refcount in one step each,
\* and having done so never does it again.
BookkeepingStep ==
    \A t \in Drivers :
        /\ t \in DriversExited => th'[t].pc # "exit"
        /\ th[t].pc = "done" => th'[t].pc = "done"
        /\ th[t].pc = "exit" /\ th'[t].pc # "exit"
              => zv'.rebuild_done_cnt = zv.rebuild_done_cnt + 1
        /\ th[t].pc = "exit_free" /\ th'[t].pc # "exit_free"
              => th'[t].pc = "done" /\ zinfo'.refcnt = zinfo.refcnt - 1

\* C23. Termination of the downstream driver. Whatever happens, the driver
\* comes to its end: it does the bookkeeping of the label exit, counting
\* itself in rebuild_done_cnt once, and drops the refcount its parent took
\* once. It comes to the label exit with success, having sent
\* ceil(size / step) steps, each answered by the peer with its READ chunks
\* and REBUILD_STEP_DONE, and then REBUILD_COMPLETE, unless something failed:
\* and it has an error only if a socket operation failed, a header read had
\* a status that is not OK, the rebuild was ERRORED, or its rebuild write
\* came back FAILED from the block store or from an OFFLINE volume.
C23_DriverTerminates ==
    /\ []BookkeepingOnce
    /\ [][BookkeepingStep]_vars
    /\ \A t \in PipeDrivers : <>(th[t].pc = "done")
    /\ [][ErrorsComeFromOutside]_vars
    /\ \A t \in PipeDrivers : <>(ExitsWithSuccess(t) \/ ExitsAfterFailure(t))

\* C23: the driver has finished with success on a volume of three blocks,
\* which takes two steps, the second shorter; it is counted as done, the
\* volume is HEALTHY and the refcount is back at zero.
C23_Witness ==
    \E t \in PipeDrivers :
        /\ th[t].pc = "done"
        /\ th[t].rc = 0
        /\ th[t].nalloc = 1
        /\ zv.size = 3
        /\ zv.rebuild_done_cnt = 1
        /\ zv.status = ZVOL_STATUS_HEALTHY
        /\ zinfo.refcnt = 0
        /\ timer.pc = "waiting"
====
